---- MODULE Spec2Model ----
(***************************************************************************)
(* purged: a cache-invalidation dispatcher.  Two parts are modelled:       *)
(*                                                                         *)
(*  - the worker pipeline (ingress channel -> backend workers -> deferred  *)
(*    handoff timers -> frontend channel -> frontend workers), under the   *)
(*    specification SpecWorkers;                                           *)
(*  - the Kafka reader event loop with its lag accounting, max-age gate    *)
(*    and the shutdown handshake with main's signal handler, under the     *)
(*    specification SpecKafka.                                             *)
(***************************************************************************)
EXTENDS Integers, Sequences, FiniteSets, TLC

\* ------------------------------------------------------------------ bounds

\* Number of backend worker goroutines (flag backend_workers).
NBackendWorkers == 2

\* Number of frontend worker goroutines (flag frontend_workers).
NFrontendWorkers == 1

\* Number of raw URLs the ingress producers push in one run.
MaxURLs == 2

\* Capacity of the ingress and frontend channels in the model.
ChanCap == 1

\* Largest frontend delay, in clock ticks, a run is configured with.
MaxDelay == 1

\* ------------------------------------------------------------ worker state

VARIABLES
    re,             \* compiled host regex, or "nil"
    frontendDelay,  \* *frontendDelay, in ticks
    chBackend,      \* ingress channel: sequence of [id, raw]
    chFrontend,     \* frontend channel: sequence of [id, url]
    bpc,            \* backend worker -> "recv" | "send"
    bcur,           \* backend worker -> the item whose Send is in flight
    fpc,            \* frontend worker -> "recv" | "send"
    fcur,           \* frontend worker -> the item whose Send is in flight
    timers,         \* pending time.AfterFunc timers: sequence of [id, url, elapsed]
    purgeRequests,  \* purged_http_requests_total{status, layer}
    alive,          \* FALSE once log.Fatal ended the process
    nextId,         \* next ingress sequence number (history)
    hist            \* per ingress item: what happened to it (history)

wvars == <<re, frontendDelay, chBackend, chFrontend, bpc, bcur, fpc, fcur,
           timers, purgeRequests, alive, nextId, hist>>

VARIABLES
    MaxAge,         \* k.MaxAge; 0 disables the gate
    now,            \* time.Now()
    maxts,          \* k.maxts: topic -> newest timestamp seen (a Go map)
    purgeEvents,    \* purged_events_received_total{tag, status, topic}
    kpc,            \* Read: "init" | "running" | "pushing" | "closing" | "closed" | "terminated"
    kpending,       \* the message whose URL Read is blocked pushing
    consumerCloses, \* number of k.Reader.Close() calls
    doneClosed,     \* close(k.Done) has run
    hpc,            \* signal handler: "idle" | "send" | "wait"
    sigchan,        \* signals buffered in sigchan (capacity 1)
    exitCode,       \* -1 while the process runs, else its exit code
    kcount          \* events handled so far (history)

kvars == <<MaxAge, now, maxts, purgeEvents, kpc, kpending, consumerCloses,
           doneClosed, hpc, sigchan, exitCode, kcount>>

VARIABLES
    destAddr,       \* p.destAddr
    conn,           \* p.conn: [open, addr]
    tpc,            \* purger: "new" | "dial" | "idle" | "write" | "read" | "exited"
    sendArgs,       \* (host, uri) of the Send call in progress
    sendI,          \* Send's loop variable i
    dialI,          \* connOrFatal's loop variable i
    dialFor,        \* who called connOrFatal: "new" | "send"
    slept,          \* the sleeps of the connOrFatal call in progress, in ms
    writes,         \* requests written by the Send call in progress (history)
    reconnects,     \* connOrFatal calls made by the Send call in progress (history)
    dialed,         \* the addresses dialed so far, as a set (history)
    sendRet,        \* what the last Send call returned
    tcpErrors,      \* purged_tcp_errors_total, summed over its type label
    sendCalls,      \* Send calls made so far (history)
    texit           \* -1 while the process runs, else its exit code

svars == <<destAddr, conn, tpc, sendArgs, sendI, dialI, dialFor, slept, writes,
           reconnects, dialed, sendRet, tcpErrors, sendCalls, texit>>

VARIABLES
    buffer,         \* readFromAddrs' buffer: [nil, bytes]
    mpc,            \* multicast reader: "read" | "push" | "panicked"
    murl,           \* the URL the reader is pushing
    htcpPackets,    \* purged_htcp_packets_total{state}
    bytesRead,      \* purged_udp_bytes_read_total
    lastCall,       \* the last extractURL call: its arguments and result (history)
    mcount,         \* extractURL calls and failed reads so far (history)
    mexit           \* -1 while the process runs, else its exit code

dvars == <<buffer, mpc, murl, htcpPackets, bytesRead, lastCall, mcount, mexit>>

VARIABLES
    httpDestAddr,   \* HTTPPurger: p.destAddr
    httpPc,         \* HTTPPurger.Send: "idle" | "do" | "copy"
    httpArgs,       \* (host, uri) of the HTTPPurger.Send call in progress or last made
    httpReq,        \* req, as http.NewRequest built it and Send set its Host
    httpResp,       \* resp, as p.client.Do returned it
    httpRet,        \* what the last HTTPPurger.Send call returned: [returned, status, err]
    httpDo,         \* p.client.Do calls made by the Send call so far (history)
    httpCalls,      \* HTTPPurger.Send calls so far (history)
    httpWire,       \* the last request p.client.Do sent to the server (history)
    tcpWire         \* the last request TCPPurger.Send wrote in full (history)

VARIABLES
    setLagPc,       \* KafkaReader.setLag: "idle" | "check" | "writing"
    setLagArgs,     \* (t, topic) of the setLag call in progress or last made
    getLagPc,       \* KafkaReader.GetLag in the sampler: "idle" | "read"
    getLagTopic,    \* topic of the GetLag call in progress or last made
    getLagRet       \* what the last GetLag call returned (-1: none yet)

lagvars == <<setLagPc, setLagArgs, getLagPc, getLagTopic, getLagRet>>

hclient == <<httpDestAddr, httpPc, httpArgs, httpReq, httpResp, httpRet, httpDo,
             httpCalls, httpWire>>

pvars == <<hclient, tcpWire, lagvars>>

vars == <<wvars, kvars, svars, dvars, pvars>>

BackendWorkers == 1..NBackendWorkers
FrontendWorkers == 1..NFrontendWorkers
Ids == 1..MaxURLs

Nil == "nil"

\* Raw URL strings delivered by an ingress, by their parts.  valid = FALSE
\* stands for a string url.Parse rejects.  The one with an empty path is the
\* URL of the multicast tests, "https://en.wikipedia.org".
RawURLs ==
    { [valid |-> TRUE, host |-> "en.wikipedia.org", path |-> "/wiki/Main_Page",
       query |-> "", fragment |-> ""],
      [valid |-> TRUE, host |-> "upload.wikimedia.org", path |-> "/a.png",
       query |-> "w=20", fragment |-> "top"],
      [valid |-> TRUE, host |-> "en.wikipedia.org", path |-> "",
       query |-> "", fragment |-> ""],
      [valid |-> FALSE, host |-> "", path |-> "%zz", query |-> "", fragment |-> ""] }

\* The zero url.URL value.
NoURL == [Host |-> "", Path |-> "", RawQuery |-> "", Fragment |-> ""]

\* No raw URL (an item that was never pushed).
NoRaw == [valid |-> FALSE, host |-> "", path |-> "", query |-> "", fragment |-> ""]

\* No item in flight.
NoItem == [id |-> 0, url |-> NoURL]

\* Mutant of urlParse: no string is rejected.
urlParseNeverFails(raw) ==
    [err |-> FALSE,
     url |-> [Host |-> raw.host, Path |-> raw.path,
              RawQuery |-> raw.query, Fragment |-> raw.fragment]]

\* url.Parse(rawURL): (parsedURL, err).
urlParse(raw) ==
    IF raw.valid
    THEN [err |-> FALSE,
          url |-> [Host |-> raw.host, Path |-> raw.path,
                   RawQuery |-> raw.query, Fragment |-> raw.fragment]]
    ELSE [err |-> TRUE, url |-> NoURL]

\* Mutant of RequestURI: the query is left out.
RequestURINoQuery(u) == IF u.Path = "" THEN "/" ELSE u.Path

\* parsedURL.RequestURI(): the escaped path, "/" when it is empty, then "?" and
\* the raw query when there is one; the fragment is not part of it.
RequestURI(u) ==
    LET result == IF u.Path = "" THEN "/" ELSE u.Path
    IN  IF u.RawQuery # "" THEN result \o "?" \o u.RawQuery ELSE result

\* The arguments of Send(parsedURL.Host, parsedURL.RequestURI()).
PurgeArgs(u) == [host |-> u.Host, uri |-> RequestURI(u)]

\* The host regexes a run is configured with: none, or the one of the tests.
Regexes == {Nil, "[um][pa][lp][os]"}

\* re.Match([]byte(host)): an unanchored match of the pattern in host.
reMatch(r, host) ==
    CASE r = "[um][pa][lp][os]" -> host \in {"upload.wikimedia.org"}
      [] OTHER -> FALSE

\* What PurgeClient.Send returns: a status and no error, or "" and an error.
SendResults ==
    { [status |-> "200", err |-> FALSE],
      [status |-> "", err |-> TRUE] }

Layers == {"backend", "frontend"}
Statuses == {r.status : r \in SendResults}

NoHist ==
    [raw |-> NoRaw, pushed |-> FALSE, taken |-> FALSE, beCall |-> 0, beRet |-> 0,
     beOk |-> FALSE, sched |-> 0, enq |-> 0, enqUrl |-> NoURL, waited |-> 0,
     feCall |-> 0, feRet |-> 0,
     beSent |-> [host |-> "", uri |-> ""], feSent |-> [host |-> "", uri |-> ""]]

\* Label values of purged_events_received_total.
TopicLabels == {"-", "topic1"}
Tags == {"", "test"}
EventStatuses == {"ok", "expired", "discarded"}

\* No message is blocked in the push.
NoPending == [raw |-> NoRaw, tag |-> "", topic |-> "-"]

\* ------------------------------------------------------ raw-TCP purge client

\* Send makes at most this many request attempts.
sendAttempts == 10

\* connOrFatal's loop runs for i = firstDialI .. connectionAttempts - 1.
connectionAttempts == 16
firstDialI == 7

RECURSIVE Pow2(_)
\* math.Pow(2, float64(i)) for a small natural i.
Pow2(i) == IF i = 0 THEN 1 ELSE 2 * Pow2(i - 1)

\* Destination addresses (-backend_addr, -frontend_addr).
Addrs == {"127.0.0.1:3128", "127.0.0.1:80"}

\* p.conn before the first dial, and the connection net.Dial(addr) returns.
NoConn == [open |-> FALSE, addr |-> ""]
Dial(addr) == [open |-> TRUE, addr |-> addr]

\* The (host, uri) pairs Send is called with.
SendRequests ==
    { [host |-> "en.wikipedia.org", uri |-> "/wiki/Main_Page"],
      [host |-> "upload.wikimedia.org", uri |-> "/a.png?w=20"] }
NoRequest == [host |-> "", uri |-> ""]

\* The zero byte a fresh buffer is filled with.
NUL == "\\0"

\* What one conn.Read can deliver: the start of a response, as bytes.
Responses ==
    { <<"H", "T", "T", "P", "/", "1", ".", "1", " ", "2", "0", "0", " ", "O", "K">>,
      <<"H", "T", "T", "P", "/", "1", ".", "1", " ", "4", "0", "4", " ", "N", "o">>,
      <<"H", "T", "T", "P", "/", "1", ".", "1", " ", "2", "0">> }

\* buffer[k] (k counted from 0) after resp was read into the zeroed buffer.
bufferAt(resp, k) == IF k + 1 <= Len(resp) THEN resp[k + 1] ELSE NUL

\* string(buffer[9:12])
statusOf(resp) == <<bufferAt(resp, 9), bufferAt(resp, 10), bufferAt(resp, 11)>>

\* A nil error, and errors.New("Failed purging %s (Host: %s) after %d attempts").
NilErr == [nil |-> TRUE, uri |-> "", host |-> "", attempts |-> 0]
FailedPurging(uri, host, n) == [nil |-> FALSE, uri |-> uri, host |-> host, attempts |-> n]

\* No Send call has returned yet.
NoRet == [returned |-> FALSE, status |-> <<>>, err |-> NilErr]

\* The purge client before NewTCPPurger is called for address a.
TCPPurgerNew(a) ==
    /\ destAddr = a
    /\ conn = NoConn
    /\ tpc = "new"
    /\ sendArgs = NoRequest
    /\ sendI = 0
    /\ dialI = 0
    /\ dialFor = "new"
    /\ slept = <<>>
    /\ writes = 0
    /\ reconnects = 0
    /\ dialed = {}
    /\ sendRet = NoRet
    /\ tcpErrors = 0
    /\ sendCalls = 0
    /\ texit = -1

\* ----------------------------------------------------- HTTP purge client

\* The decimal digits.
DigitChars == <<"0", "1", "2", "3", "4", "5", "6", "7", "8", "9">>

\* The value of a digit character; -1 for any other byte.
digitVal(c) ==
    IF \E k \in 1..10 : DigitChars[k] = c
    THEN (CHOOSE k \in 1..10 : DigitChars[k] = c) - 1
    ELSE -1

RECURSIVE Itoa(_)
\* strconv.Itoa(n) for a natural n, as a sequence of characters.
Itoa(n) == IF n < 10 THEN <<DigitChars[n + 1]>> ELSE Append(Itoa(n \div 10), DigitChars[(n % 10) + 1])

\* The purgeReq format filled in: the request TCPPurger.Send writes.
purgeReq(uri, host) ==
    [method |-> "PURGE", target |-> uri, Host |-> host, UserAgent |-> "purged"]

\* Nothing was sent yet.
NoWire == [method |-> "", target |-> "", Host |-> "", UserAgent |-> ""]

\* The (host, uri) pairs HTTPPurger.Send is called with: those of the workers
\* and one whose uri is not a valid URL path.
HTTPSendRequests ==
    SendRequests \cup {[host |-> "en.wikipedia.org", uri |-> "/%zz"]}

\* http.NewRequest("PURGE", "http://"+p.destAddr+uri, nil): (req, err); the
\* URL must parse.
NewRequest(method, addr, uri) ==
    IF uri = "/%zz"
    THEN [err |-> TRUE, req |-> [Method |-> "", URL |-> [Host |-> "", RequestURI |-> ""],
                                 Host |-> ""]]
    ELSE [err |-> FALSE, req |-> [Method |-> method, URL |-> [Host |-> addr, RequestURI |-> uri],
                                  Host |-> addr]]
NoReq == NewRequest("", "", "/%zz").req

\* What the transport writes for req: the method, the URL's request URI and
\* req.Host as the Host header.
httpWrite(req) ==
    [method |-> req.Method, target |-> req.URL.RequestURI, Host |-> req.Host,
     UserAgent |-> "Go-http-client/1.1"]

\* http.ReadResponse on the bytes the server answered with: (resp, err).  The
\* status line is "HTTP/x.y " followed by a three-digit code.
ReadResponse(bytes) ==
    IF Len(bytes) >= 12 /\ \A k \in 10..12 : digitVal(bytes[k]) >= 0
    THEN [err |-> FALSE,
          StatusCode |-> 100 * digitVal(bytes[10]) + 10 * digitVal(bytes[11])
                         + digitVal(bytes[12])]
    ELSE [err |-> TRUE, StatusCode |-> 0]
NoResp == [err |-> TRUE, StatusCode |-> 0]

\* What HTTPPurger.Send returns: (status, err); err names the call that failed.
NoHTTPRet == [returned |-> FALSE, status |-> <<>>, err |-> Nil]

\* The HTTP purge client NewHTTPPurger(a) returns.
HTTPPurgerNew(a) ==
    /\ httpDestAddr = a
    /\ httpPc = "idle"
    /\ httpArgs = NoRequest
    /\ httpReq = NoReq
    /\ httpResp = NoResp
    /\ httpRet = NoHTTPRet
    /\ httpDo = 0
    /\ httpCalls = 0
    /\ httpWire = NoWire
    /\ tcpWire = NoWire

\* No setLag or GetLag call has been made.
NoLagArgs == [t |-> 0, topic |-> "-"]

LagIdle ==
    /\ setLagPc = "idle"
    /\ setLagArgs = NoLagArgs
    /\ getLagPc = "idle"
    /\ getLagTopic = "-"
    /\ getLagRet = -1

\* --------------------------------------------------------- multicast reader

\* The size of the reader's buffer (pr.maxDatagramSize), scaled down.
maxDatagramSize == 32

\* The shortest datagram extractURL accepts.
minHTCPLen == 20

\* The CLR opcode.
opCLR == 4

\* uint16 arithmetic is modulo this.
Uint16 == 65536

\* A byte slice: nil, or its bytes.
NilBuffer == [nil |-> TRUE, bytes |-> <<>>]
Bytes(b) == [nil |-> FALSE, bytes |-> b]

\* make([]byte, size)
makeBytes(size) == Bytes([i \in 1..size |-> 0])

\* The big-endian bytes of a 16-bit value.
BE(x) == <<x \div 256, x % 256>>

\* An HTCP frame: 14 bytes of header with the opcode at offset 6, then the
\* method length, the method, the URL length and the URL.
Frame(op, mlen, method, ulen, url) ==
    [i \in 1..14 |-> IF i = 7 THEN op ELSE 0] \o BE(mlen) \o method \o BE(ulen) \o url

\* "HEAD", "a.org/xy" and "b.io" in ASCII.
Method == <<72, 69, 65, 68>>
LongURL == <<97, 46, 111, 114, 103, 47, 120, 121>>
ShortURL == <<98, 46, 105, 111>>

\* The datagrams the socket delivers.
Datagrams ==
    { Frame(opCLR, 4, Method, 8, LongURL),
      Frame(opCLR, 4, Method, 4, ShortURL),
      Frame(opCLR, 0, <<>>, 4, ShortURL),
      Frame(1, 4, Method, 4, ShortURL),
      Frame(opCLR, 4, Method, 0, <<>>),
      <<0, 0, 0, 0, 0, 0, opCLR>>,
      Frame(opCLR, 4, Method, 8, ShortURL),
      Frame(opCLR, 4096, Method, 4, ShortURL),
      Frame(opCLR, 4, Method, 5000, ShortURL),
      Frame(opCLR, 65535, Method, 4, ShortURL) }

\* p.ReadFrom(buffer): the datagram overwrites the start of the buffer, the rest
\* of the buffer keeps what it held.
ReadFrom(buf, d) ==
    Bytes([i \in 1..Len(buf.bytes) |-> IF i <= Len(d) THEN d[i] ELSE buf.bytes[i]])

\* buffer[lo:hi] is in range.
sliceOk(buf, lo, hi) == lo <= hi /\ hi <= Len(buf.bytes)

\* binary.BigEndian.Uint16(buffer[off : off+2]), for a slice in range.
Uint16At(buf, off) == buf.bytes[off + 1] * 256 + buf.bytes[off + 2]

\* What an extractURL call does: it returns (url, err) or faults, and counts
\* the packet as good or bad (state) and n bytes as read.
Rejected(msg, n) ==
    [fault |-> FALSE, err |-> TRUE, msg |-> msg, url |-> <<>>, state |-> "bad", read |-> n]
Extracted(url, n) ==
    [fault |-> FALSE, err |-> FALSE, msg |-> "", url |-> url, state |-> "good", read |-> n]
Faulted(state, n) ==
    [fault |-> TRUE, err |-> FALSE, msg |-> "slice bounds out of range", url |-> <<>>,
     state |-> state, read |-> n]

\* Mutant of opcodeAccepted: every opcode is taken for a CLR.
opcodeAcceptedAny(b) == TRUE

\* extractURL: buffer[6] != 4 rejects the packet.
opcodeAccepted(b) == b = opCLR

\* Mutant of urlOffset: the method is not skipped.
urlOffsetNoSkip(mlen) == (14 + 2) % Uint16

\* extractURL: the offset of the URL length field, after the method.
urlOffset(mlen) == (14 + 2 + mlen) % Uint16

\* extractURL(buffer, n)
extractURL(buf, n) ==
    IF buf.nil THEN Rejected("buffer is nil", 0)
    ELSE IF n < minHTCPLen THEN Rejected("size smaller than 20", n)
    ELSE IF Len(buf.bytes) <= 6 THEN Faulted("", n)
    ELSE IF ~opcodeAccepted(buf.bytes[6 + 1]) THEN Rejected("no CLR opcode", n)
    ELSE IF ~sliceOk(buf, 14, 14 + 2) THEN Faulted("", n)
    ELSE LET off1 == urlOffset(Uint16At(buf, 14))
         IN  IF ~sliceOk(buf, off1, (off1 + 2) % Uint16) THEN Faulted("", n)
             ELSE LET url_len == Uint16At(buf, off1)
                      off2 == (off1 + 2) % Uint16
                  IN  IF url_len = 0 THEN Rejected("URL len is zero", n)
                      ELSE IF ~sliceOk(buf, off2, (off2 + url_len) % Uint16)
                           THEN Faulted("good", n)
                           ELSE Extracted(SubSeq(buf.bytes, off2 + 1, off2 + url_len), n)

\* No extractURL call yet.
NoCall == [buf |-> NilBuffer, n |-> 0, dgram |-> <<>>, res |-> Rejected("", 0)]

\* The multicast reader before its first read.
MultiCastReaderNew ==
    /\ buffer = makeBytes(maxDatagramSize)
    /\ mpc = "read"
    /\ murl = <<>>
    /\ htcpPackets = [st \in {"good", "bad"} |-> 0]
    /\ bytesRead = 0
    /\ lastCall = NoCall
    /\ mcount = 0
    /\ mexit = -1

InitWorkers ==
    /\ re \in Regexes
    /\ frontendDelay \in 0..MaxDelay
    /\ chBackend = <<>>
    /\ chFrontend = <<>>
    /\ bpc = [w \in BackendWorkers |-> "recv"]
    /\ bcur = [w \in BackendWorkers |-> NoItem]
    /\ fpc = [f \in FrontendWorkers |-> "recv"]
    /\ fcur = [f \in FrontendWorkers |-> NoItem]
    /\ timers = <<>>
    /\ purgeRequests = [l \in Layers, s \in Statuses |-> 0]
    /\ alive = TRUE
    /\ nextId = 1
    /\ hist = [i \in Ids |-> NoHist]
    /\ MaxAge = 0
    /\ now = 1
    /\ maxts = <<>>
    /\ purgeEvents = [g \in Tags, s \in EventStatuses, t \in TopicLabels |-> 0]
    /\ kpc = "init"
    /\ kpending = NoPending
    /\ consumerCloses = 0
    /\ doneClosed = FALSE
    /\ hpc = "idle"
    /\ sigchan = 0
    /\ exitCode = -1
    /\ kcount = 0
    /\ TCPPurgerNew("127.0.0.1:3128")
    /\ MultiCastReaderNew
    /\ HTTPPurgerNew("127.0.0.1:80")
    /\ LagIdle

\* A reader pushes a URL on the ingress channel (churls <- url); blocks when full.
IngressPush(raw) ==
    /\ alive
    /\ nextId <= MaxURLs
    /\ Len(chBackend) < ChanCap
    /\ chBackend' = Append(chBackend, [id |-> nextId, raw |-> raw])
    /\ hist' = [hist EXCEPT ![nextId].raw = raw, ![nextId].pushed = TRUE]
    /\ nextId' = nextId + 1
    /\ UNCHANGED <<pvars, dvars, svars, kvars, re, frontendDelay, chFrontend, bpc, bcur, fpc, fcur, timers,
                   purgeRequests, alive>>

\* Mutant of hostFiltered: the regex is ignored.
hostFilteredNever(r, url) == FALSE

\* The host filter of backendWorker: TRUE when the URL is to be skipped.
hostFiltered(r, url) == r # Nil /\ ~reMatch(r, url.Host)

\* Mutant of afterFunc: the handoff is never scheduled.
afterFuncDropped(ts, item) == ts

\* time.AfterFunc(frontendDelay, delayedPurge(chout, url)): the timers after it.
afterFunc(ts, item) == Append(ts, [id |-> item.id, url |-> item.url, elapsed |-> 0])

\* Mutant of backendWorkerRecv: the handoff is scheduled before Send is called.
backendWorkerRecvHandsOver(w) ==
    /\ alive
    /\ bpc[w] = "recv"
    /\ chBackend # <<>>
    /\ LET item == Head(chBackend)
           p == urlParse(item.raw)
       IN  /\ chBackend' = Tail(chBackend)
           /\ IF p.err \/ hostFiltered(re, p.url)
              THEN /\ hist' = [hist EXCEPT ![item.id].taken = TRUE]
                   /\ UNCHANGED <<bpc, bcur, timers>>
              ELSE /\ bpc' = [bpc EXCEPT ![w] = "send"]
                   /\ bcur' = [bcur EXCEPT ![w] = [id |-> item.id, url |-> p.url]]
                   /\ timers' = afterFunc(timers, [id |-> item.id, url |-> p.url])
                   /\ hist' = [hist EXCEPT ![item.id].taken = TRUE,
                                           ![item.id].beSent = PurgeArgs(p.url),
                                           ![item.id].beCall = @ + 1,
                                           ![item.id].sched = @ + 1]
    /\ UNCHANGED <<pvars, dvars, svars, kvars, re, frontendDelay, chFrontend, fpc, fcur,
                   purgeRequests, alive, nextId>>

\* Mutant of backendWorkerRecv: the worker takes the newest entry of the
\* channel instead of the oldest.
backendWorkerRecvNewest(w) ==
    /\ alive
    /\ bpc[w] = "recv"
    /\ chBackend # <<>>
    /\ LET item == chBackend[Len(chBackend)]
           p == urlParse(item.raw)
       IN  /\ chBackend' = SubSeq(chBackend, 1, Len(chBackend) - 1)
           /\ IF p.err \/ hostFiltered(re, p.url)
              THEN /\ hist' = [hist EXCEPT ![item.id].taken = TRUE]
                   /\ UNCHANGED <<bpc, bcur>>
              ELSE /\ bpc' = [bpc EXCEPT ![w] = "send"]
                   /\ bcur' = [bcur EXCEPT ![w] = [id |-> item.id, url |-> p.url]]
                   /\ hist' = [hist EXCEPT ![item.id].taken = TRUE,
                                           ![item.id].beSent = PurgeArgs(p.url),
                                           ![item.id].beCall = @ + 1]
    /\ UNCHANGED <<pvars, dvars, svars, kvars, re, frontendDelay, chFrontend, fpc, fcur, timers,
                   purgeRequests, alive, nextId>>

\* Mutant of backendWorkerRecv: the receive leaves the URL on the channel, so
\* every worker gets to see it.
backendWorkerRecvBroadcast(w) ==
    /\ alive
    /\ bpc[w] = "recv"
    /\ chBackend # <<>>
    /\ LET item == Head(chBackend)
           p == urlParse(item.raw)
       IN  /\ chBackend' = IF hist[item.id].taken THEN Tail(chBackend) ELSE chBackend
           /\ IF p.err \/ hostFiltered(re, p.url)
              THEN /\ hist' = [hist EXCEPT ![item.id].taken = TRUE]
                   /\ UNCHANGED <<bpc, bcur>>
              ELSE /\ bpc' = [bpc EXCEPT ![w] = "send"]
                   /\ bcur' = [bcur EXCEPT ![w] = [id |-> item.id, url |-> p.url]]
                   /\ hist' = [hist EXCEPT ![item.id].taken = TRUE,
                                           ![item.id].beSent = PurgeArgs(p.url),
                                           ![item.id].beCall = @ + 1]
    /\ UNCHANGED <<pvars, dvars, svars, kvars, re, frontendDelay, chFrontend, fpc, fcur, timers,
                   purgeRequests, alive, nextId>>

\* backendWorker: take the next raw URL, parse it, filter it, call Send.
backendWorkerRecv(w) ==
    /\ alive
    /\ bpc[w] = "recv"
    /\ chBackend # <<>>
    /\ LET item == Head(chBackend)
           p == urlParse(item.raw)
       IN  /\ chBackend' = Tail(chBackend)
           /\ IF p.err \/ hostFiltered(re, p.url)
              THEN /\ hist' = [hist EXCEPT ![item.id].taken = TRUE]
                   /\ UNCHANGED <<bpc, bcur>>
              ELSE /\ bpc' = [bpc EXCEPT ![w] = "send"]
                   /\ bcur' = [bcur EXCEPT ![w] = [id |-> item.id, url |-> p.url]]
                   /\ hist' = [hist EXCEPT ![item.id].taken = TRUE,
                                           ![item.id].beSent = PurgeArgs(p.url),
                                           ![item.id].beCall = @ + 1]
    /\ UNCHANGED <<pvars, dvars, svars, kvars, re, frontendDelay, chFrontend, fpc, fcur, timers,
                   purgeRequests, alive, nextId>>

\* Mutant of backendWorkerSendReturn: the worker itself sends the URL on the
\* frontend channel, and so waits while that channel is full.
backendWorkerSendReturnBlocking(w, r) ==
    /\ alive
    /\ bpc[w] = "send"
    /\ Len(chFrontend) < ChanCap
    /\ purgeRequests' = [purgeRequests EXCEPT !["backend", r.status] = @ + 1]
    /\ chFrontend' = Append(chFrontend, bcur[w])
    /\ hist' = [hist EXCEPT ![bcur[w].id].beRet = @ + 1,
                            ![bcur[w].id].beOk = ~r.err,
                            ![bcur[w].id].sched = @ + 1,
                            ![bcur[w].id].enq = @ + 1,
                            ![bcur[w].id].enqUrl = bcur[w].url,
                            ![bcur[w].id].waited = frontendDelay]
    /\ bpc' = [bpc EXCEPT ![w] = "recv"]
    /\ bcur' = [bcur EXCEPT ![w] = NoItem]
    /\ UNCHANGED <<pvars, dvars, svars, kvars, re, frontendDelay, chBackend, timers, fpc, fcur, alive, nextId>>

\* Mutant of backendWorkerSendReturn: a failed Send makes the worker skip the
\* metric and the handoff.
backendWorkerSendReturnSkipsFailed(w, r) ==
    /\ alive
    /\ bpc[w] = "send"
    /\ IF r.err
       THEN UNCHANGED <<purgeRequests, timers>>
       ELSE /\ purgeRequests' = [purgeRequests EXCEPT !["backend", r.status] = @ + 1]
            /\ timers' = afterFunc(timers, bcur[w])
    /\ hist' = [hist EXCEPT ![bcur[w].id].beRet = @ + 1,
                            ![bcur[w].id].beOk = ~r.err,
                            ![bcur[w].id].sched = @ + (Len(timers') - Len(timers))]
    /\ bpc' = [bpc EXCEPT ![w] = "recv"]
    /\ bcur' = [bcur EXCEPT ![w] = NoItem]
    /\ UNCHANGED <<pvars, dvars, svars, kvars, re, frontendDelay, chBackend, chFrontend, fpc, fcur, alive, nextId>>

\* backendWorker: Send returned; count the request and schedule the handoff.
backendWorkerSendReturn(w, r) ==
    /\ alive
    /\ bpc[w] = "send"
    /\ purgeRequests' = [purgeRequests EXCEPT !["backend", r.status] = @ + 1]
    /\ timers' = afterFunc(timers, bcur[w])
    /\ hist' = [hist EXCEPT ![bcur[w].id].beRet = @ + 1,
                            ![bcur[w].id].beOk = ~r.err,
                            ![bcur[w].id].sched = @ + (Len(timers') - Len(timers))]
    /\ bpc' = [bpc EXCEPT ![w] = "recv"]
    /\ bcur' = [bcur EXCEPT ![w] = NoItem]
    /\ UNCHANGED <<pvars, dvars, svars, kvars, re, frontendDelay, chBackend, chFrontend, fpc, fcur, alive, nextId>>

\* connOrFatal inside a Send gives up: log.Fatal ends the process.
SendFatal ==
    /\ alive
    /\ \/ \E w \in BackendWorkers : bpc[w] = "send"
       \/ \E f \in FrontendWorkers : fpc[f] = "send"
    /\ alive' = FALSE
    /\ UNCHANGED <<pvars, dvars, svars, kvars, re, frontendDelay, chBackend, chFrontend, bpc, bcur, fpc, fcur,
                   timers, purgeRequests, nextId, hist>>

\* One clock tick passes for every pending timer that is not yet due.
Tick ==
    /\ alive
    /\ \E i \in 1..Len(timers) : timers[i].elapsed < frontendDelay
    /\ timers' = [i \in 1..Len(timers) |->
                    IF timers[i].elapsed < frontendDelay
                    THEN [timers[i] EXCEPT !.elapsed = @ + 1]
                    ELSE timers[i]]
    /\ UNCHANGED <<pvars, dvars, svars, kvars, re, frontendDelay, chBackend, chFrontend, bpc, bcur, fpc, fcur,
                   purgeRequests, alive, nextId, hist>>

\* Mutant of timerDue: the handoff does not wait for the delay.
timerDueAtOnce(t) == TRUE

\* Whether the runtime may run the function of timer t now.
timerDue(t) == t.elapsed >= frontendDelay

RemoveAt(s, i) == [j \in 1..(Len(s) - 1) |-> IF j < i THEN s[j] ELSE s[j + 1]]

\* Mutant of delayedPurge: a handoff that finds the frontend channel full gives
\* its URL up (a send with a default case).
delayedPurgeDropsWhenFull(i) ==
    /\ alive
    /\ i \in 1..Len(timers)
    /\ timerDue(timers[i])
    /\ timers' = RemoveAt(timers, i)
    /\ IF Len(chFrontend) < ChanCap
       THEN /\ chFrontend' = Append(chFrontend, [id |-> timers[i].id, url |-> timers[i].url])
            /\ hist' = [hist EXCEPT ![timers[i].id].enq = @ + 1,
                                    ![timers[i].id].enqUrl = timers[i].url,
                                    ![timers[i].id].waited = timers[i].elapsed]
       ELSE UNCHANGED <<chFrontend, hist>>
    /\ UNCHANGED <<pvars, dvars, svars, kvars, re, frontendDelay, chBackend, bpc, bcur, fpc, fcur,
                   purgeRequests, alive, nextId>>

\* delayedPurge's closure runs when its timer fires: chout <- toPurge.
delayedPurge(i) ==
    /\ alive
    /\ i \in 1..Len(timers)
    /\ timerDue(timers[i])
    /\ Len(chFrontend) < ChanCap
    /\ chFrontend' = Append(chFrontend, [id |-> timers[i].id, url |-> timers[i].url])
    /\ timers' = RemoveAt(timers, i)
    /\ hist' = [hist EXCEPT ![timers[i].id].enq = @ + 1,
                            ![timers[i].id].enqUrl = timers[i].url,
                            ![timers[i].id].waited = timers[i].elapsed]
    /\ UNCHANGED <<pvars, dvars, svars, kvars, re, frontendDelay, chBackend, bpc, bcur, fpc, fcur,
                   purgeRequests, alive, nextId>>

\* frontendWorker: take the next parsed URL and call Send.
frontendWorkerRecv(f) ==
    /\ alive
    /\ fpc[f] = "recv"
    /\ chFrontend # <<>>
    /\ chFrontend' = Tail(chFrontend)
    /\ fpc' = [fpc EXCEPT ![f] = "send"]
    /\ fcur' = [fcur EXCEPT ![f] = Head(chFrontend)]
    /\ hist' = [hist EXCEPT ![Head(chFrontend).id].feCall = @ + 1,
                            ![Head(chFrontend).id].feSent = PurgeArgs(Head(chFrontend).url)]
    /\ UNCHANGED <<pvars, dvars, svars, kvars, re, frontendDelay, chBackend, bpc, bcur, timers,
                   purgeRequests, alive, nextId>>

\* Mutant of frontendWorkerSendReturn: the worker leaves its loop after the
\* first Send.
frontendWorkerSendReturnStops(f, r) ==
    /\ alive
    /\ fpc[f] = "send"
    /\ purgeRequests' = [purgeRequests EXCEPT !["frontend", r.status] = @ + 1]
    /\ hist' = [hist EXCEPT ![fcur[f].id].feRet = @ + 1]
    /\ fpc' = [fpc EXCEPT ![f] = "done"]
    /\ fcur' = [fcur EXCEPT ![f] = NoItem]
    /\ UNCHANGED <<pvars, dvars, svars, kvars, re, frontendDelay, chBackend, chFrontend, bpc, bcur,
                   timers, alive, nextId>>

\* frontendWorker: Send returned; count the request.
frontendWorkerSendReturn(f, r) ==
    /\ alive
    /\ fpc[f] = "send"
    /\ purgeRequests' = [purgeRequests EXCEPT !["frontend", r.status] = @ + 1]
    /\ hist' = [hist EXCEPT ![fcur[f].id].feRet = @ + 1]
    /\ fpc' = [fpc EXCEPT ![f] = "recv"]
    /\ fcur' = [fcur EXCEPT ![f] = NoItem]
    /\ UNCHANGED <<pvars, dvars, svars, kvars, re, frontendDelay, chBackend, chFrontend, bpc, bcur, timers,
                   alive, nextId>>

\* ------------------------------------------------------------- Kafka state

\* Number of events the reader handles in one run.
MaxEvents == 2

\* Last value of the wall clock in a run.
MaxNow == 3

\* Largest purgeMaxAge (seconds) a run is configured with.
MaxAgeLimit == 1


\* time.Time{}: the zero time, which IsZero() and is before every other time.
ZeroTime == 0

\* Event timestamps on the wire.
EventTimes == {1, 2}

\* A "dt" member of the JSON: absent, a string that is not RFC 3339 (such as
\* "2020-04-30 11:37:53"), a timestamp ("2020-04-30T11:37:53Z"), or a one-digit
\* number (5).  len is the length in bytes of the member's JSON text.
Absent == [kind |-> "absent", t |-> 0, len |-> 0]
BadDt == [kind |-> "bad", t |-> 0, len |-> 21]
Dt(x) == [kind |-> "rfc3339", t |-> x, len |-> 22]
DigitDt == [kind |-> "digit", t |-> 0, len |-> 1]
DtTokens == {Absent, BadDt, DigitDt} \cup {Dt(x) : x \in EventTimes}

\* The URL carried by the events.
EventURI == CHOOSE u \in RawURLs : u.host = "en.wikipedia.org" /\ u.path # ""

\* Text that is not JSON.
BadJSON ==
    [json |-> FALSE, hasUri |-> FALSE, uri |-> NoRaw, dt |-> Absent,
     hasRoot |-> FALSE, rootDt |-> Absent, tags |-> <<>>]

\* A resource_change object without meta.uri.
NoUriEvent(d) ==
    [json |-> TRUE, hasUri |-> FALSE, uri |-> NoRaw, dt |-> d,
     hasRoot |-> FALSE, rootDt |-> Absent, tags |-> <<>>]

\* A resource_change object with meta.uri and meta.dt.
Event(d, tags) ==
    [json |-> TRUE, hasUri |-> TRUE, uri |-> EventURI, dt |-> d,
     hasRoot |-> FALSE, rootDt |-> Absent, tags |-> tags]

\* A resource_change object with meta.uri and no meta.dt at all: its timestamp
\* stays the zero time, older than any age limit.
UndatedURI == CHOOSE u \in RawURLs : u.host = "upload.wikimedia.org"
UndatedEvent ==
    [json |-> TRUE, hasUri |-> TRUE, uri |-> UndatedURI, dt |-> Absent,
     hasRoot |-> FALSE, rootDt |-> Absent, tags |-> <<>>]

\* A resource_change object with a root_event as well.
RootedEvent(d, r, tags) ==
    [json |-> TRUE, hasUri |-> TRUE, uri |-> EventURI, dt |-> d,
     hasRoot |-> TRUE, rootDt |-> r, tags |-> tags]

\* The message payloads the consumer delivers.
Payloads ==
    { BadJSON, NoUriEvent(Dt(1)),
      Event(Dt(1), <<"test">>), Event(Dt(2), <<>>), Event(BadDt, <<>>),
      UndatedEvent,
      RootedEvent(Dt(2), Dt(1), <<>>), RootedEvent(Dt(1), Dt(2), <<"test">>),
      RootedEvent(Dt(1), BadDt, <<>>), Event(DigitDt, <<>>) }

\* e.TopicPartition.Topic: nil or a topic name.
TopicPtrs == {Nil, "topic1"}

\* RcTime.UnmarshalJSON, data[1 : len(data)-1]: whether the slice expression
\* is out of range for the member's text, which is a run-time panic.
unmarshalPanics(tok) == tok.kind # "absent" /\ 1 > tok.len - 1

\* RcTime.UnmarshalJSON: the parsed time, or time.Now() for an invalid one.  An
\* absent member leaves the zero time.
RcTimeUnmarshal(tok, t) ==
    CASE tok.kind = "rfc3339" -> tok.t
      [] tok.kind \in {"bad", "digit"} -> t
      [] OTHER -> ZeroTime

\* json.Unmarshal of a valid JSON text calls UnmarshalJSON for every dt
\* member present; a panic in one of them is not recovered.
decodePanics(data) ==
    data.json /\ (unmarshalPanics(data.dt) \/ (data.hasRoot /\ unmarshalPanics(data.rootDt)))

\* Mutant of NewResourceChangeFromJSON: an object without meta.uri is accepted.
NewResourceChangeFromJSONAnyObject(data, t) ==
    [err |-> ~data.json, panic |-> decodePanics(data),
     rc |-> [Event |-> [Dt |-> RcTimeUnmarshal(data.dt, t), URI |-> data.uri],
             hasRootEvent |-> data.hasRoot,
             RootEvent |-> [Dt |-> RcTimeUnmarshal(data.rootDt, t)],
             Tags |-> data.tags]]

\* NewResourceChangeFromJSON: (rc, err), decoded at time t; panic when the
\* call does not return.
NewResourceChangeFromJSON(data, t) ==
    IF ~data.json \/ ~data.hasUri \/ decodePanics(data)
    THEN [err |-> ~decodePanics(data), panic |-> decodePanics(data),
          rc |-> [Event |-> [Dt |-> ZeroTime, URI |-> NoRaw],
                  hasRootEvent |-> FALSE, RootEvent |-> [Dt |-> ZeroTime],
                  Tags |-> <<>>]]
    ELSE [err |-> FALSE, panic |-> FALSE,
          rc |-> [Event |-> [Dt |-> RcTimeUnmarshal(data.dt, t), URI |-> data.uri],
                  hasRootEvent |-> data.hasRoot,
                  RootEvent |-> [Dt |-> RcTimeUnmarshal(data.rootDt, t)],
                  Tags |-> data.tags]]

\* Mutant of GetURL: the URL without its fragment.
GetURLNoFragment(rc) == [rc.Event.URI EXCEPT !.fragment = ""]

\* ResourceChange.GetURL.
GetURL(rc) == rc.Event.URI

\* Mutant of GetTS: the event's own time, root event or not.
GetTSMeta(rc) == rc.Event.Dt

\* ResourceChange.GetTS: the root event's time if there is one, else the event's.
GetTS(rc) == IF ~rc.hasRootEvent THEN rc.Event.Dt ELSE rc.RootEvent.Dt

\* Mutant of setLag: the newest timestamp is overwritten by any later event.
setLagLast(m, t, topic) ==
    [x \in DOMAIN m \cup {topic} |-> IF x = topic THEN t ELSE m[x]]

\* KafkaReader.setLag: the map after recording t for topic.
setLag(m, t, topic) ==
    IF topic \notin DOMAIN m
    THEN [x \in DOMAIN m \cup {topic} |-> IF x = topic THEN t ELSE m[x]]
    ELSE IF t > m[topic]
         THEN [m EXCEPT ![topic] = t]
         ELSE m

\* Mutant of GetLag: a recorded zero time is subtracted like any other.
GetLagOfZeroTime(topic) ==
    IF topic \notin DOMAIN maxts THEN 0 ELSE now - maxts[topic]

\* KafkaReader.GetLag.  The clock counts the unit Duration.Nanoseconds counts.
GetLag(topic) ==
    IF topic \notin DOMAIN maxts \/ maxts[topic] = ZeroTime
    THEN 0
    ELSE now - maxts[topic]

\* manageEvent's topic label: "-" for a nil topic.
topicOf(ptr) == IF ptr = Nil THEN "-" ELSE ptr

\* manageEvent's tag label: the first tag, if any.
tagOf(rc) == IF Len(rc.Tags) > 0 THEN rc.Tags[1] ELSE ""

\* manageEvent, message case: whether setLag is called for a decoded event.
lagRecorded(maxage) == maxage # 0

\* Mutant of expired: the age limit applies when it is zero as well.
expiredAtZeroToo(maxage, ts, t) == t - ts > maxage

\* Mutant of expired: an event exactly maxage old is dropped as well.
expiredAtMaxAge(maxage, ts, t) == maxage # 0 /\ t - ts >= maxage

\* manageEvent, message case: whether the decoded event is dropped as expired.
expired(maxage, ts, t) == maxage # 0 /\ t - ts > maxage


InitKafka ==
    /\ re = Nil
    /\ frontendDelay = 0
    /\ chBackend = <<>>
    /\ chFrontend = <<>>
    /\ bpc = [w \in BackendWorkers |-> "recv"]
    /\ bcur = [w \in BackendWorkers |-> NoItem]
    /\ fpc = [f \in FrontendWorkers |-> "recv"]
    /\ fcur = [f \in FrontendWorkers |-> NoItem]
    /\ timers = <<>>
    /\ purgeRequests = [l \in Layers, s \in Statuses |-> 0]
    /\ alive = TRUE
    /\ nextId = 1
    /\ hist = [i \in Ids |-> NoHist]
    /\ MaxAge \in 0..MaxAgeLimit
    /\ now = 1
    /\ maxts = <<>>
    /\ purgeEvents = [g \in Tags, s \in EventStatuses, t \in TopicLabels |-> 0]
    /\ kpc = "init"
    /\ kpending = NoPending
    /\ consumerCloses = 0
    /\ doneClosed = FALSE
    /\ hpc = "idle"
    /\ sigchan = 0
    /\ exitCode = -1
    /\ kcount = 0
    /\ TCPPurgerNew("127.0.0.1:3128")
    /\ MultiCastReaderNew
    /\ HTTPPurgerNew("127.0.0.1:80")
    /\ LagIdle

running == exitCode = -1

kworkers == <<re, frontendDelay, chFrontend, bpc, bcur, fpc, fcur, timers,
              purgeRequests, alive, hist>>

\* Read: SubscribeTopics; an error is fatal.
Subscribe(ok) ==
    /\ running
    /\ kpc = "init"
    /\ IF ok
       THEN kpc' = "running" /\ UNCHANGED exitCode
       ELSE exitCode' = 1 /\ UNCHANGED kpc
    /\ UNCHANGED <<pvars, dvars, svars, kworkers, chBackend, nextId, MaxAge, now, maxts, purgeEvents,
                   kpending, consumerCloses, doneClosed, hpc, sigchan, kcount>>

\* The wall clock advances.
KafkaTick ==
    /\ running
    /\ now < MaxNow
    /\ now' = now + 1
    /\ UNCHANGED <<pvars, dvars, svars, kworkers, chBackend, nextId, MaxAge, maxts, purgeEvents, kpc,
                   kpending, consumerCloses, doneClosed, hpc, sigchan, exitCode, kcount>>

\* manageEvent, case *kafka.Message; the push blocks while the channel is full.
\* A panic while decoding ends the process with exit code 2.
manageMessage(ptr, data) ==
    /\ running
    /\ kpc = "running"
    /\ kcount < MaxEvents
    /\ kcount' = kcount + 1
    /\ LET topic == topicOf(ptr)
           d == NewResourceChangeFromJSON(data, now)
           ts == GetTS(d.rc)
       IN  IF d.panic
           THEN /\ exitCode' = 2
                /\ UNCHANGED <<maxts, chBackend, nextId, kpc, kpending, purgeEvents>>
           ELSE IF d.err
           THEN /\ purgeEvents' = [purgeEvents EXCEPT !["", "discarded", topic] = @ + 1]
                /\ UNCHANGED <<maxts, chBackend, nextId, kpc, kpending, exitCode>>
           ELSE /\ maxts' = IF lagRecorded(MaxAge) THEN setLag(maxts, ts, topic) ELSE maxts
                /\ UNCHANGED exitCode
                /\ IF expired(MaxAge, ts, now)
                   THEN /\ purgeEvents' =
                              [purgeEvents EXCEPT ![tagOf(d.rc), "expired", topic] = @ + 1]
                        /\ UNCHANGED <<chBackend, nextId, kpc, kpending>>
                   ELSE IF Len(chBackend) < ChanCap
                        THEN /\ chBackend' =
                                   Append(chBackend, [id |-> nextId, raw |-> GetURL(d.rc)])
                             /\ nextId' = nextId + 1
                             /\ purgeEvents' =
                                   [purgeEvents EXCEPT ![tagOf(d.rc), "ok", topic] = @ + 1]
                             /\ UNCHANGED <<kpc, kpending>>
                        ELSE /\ kpc' = "pushing"
                             /\ kpending' = [raw |-> GetURL(d.rc), tag |-> tagOf(d.rc),
                                             topic |-> topic]
                             /\ UNCHANGED <<chBackend, nextId, purgeEvents>>
    /\ UNCHANGED <<pvars, dvars, svars, kworkers, MaxAge, now, consumerCloses, doneClosed, hpc, sigchan>>

\* Mutant of manageMessagePushed: a push that finds the channel full gives up
\* and drops the URL.
manageMessagePushedDropped ==
    /\ running
    /\ kpc = "pushing"
    /\ purgeEvents' = [purgeEvents EXCEPT ![kpending.tag, "ok", kpending.topic] = @ + 1]
    /\ kpc' = "running"
    /\ kpending' = NoPending
    /\ UNCHANGED <<pvars, dvars, svars, kworkers, chBackend, nextId, MaxAge, now, maxts, consumerCloses,
                   doneClosed, hpc, sigchan, exitCode, kcount>>

\* Mutant of manageMessagePushed: the push that had to wait is not counted.
manageMessagePushedUncounted ==
    /\ running
    /\ kpc = "pushing"
    /\ Len(chBackend) < ChanCap
    /\ chBackend' = Append(chBackend, [id |-> nextId, raw |-> kpending.raw])
    /\ nextId' = nextId + 1
    /\ kpc' = "running"
    /\ kpending' = NoPending
    /\ UNCHANGED <<pvars, dvars, svars, kworkers, MaxAge, now, maxts, consumerCloses, doneClosed, hpc,
                   sigchan, exitCode, kcount, purgeEvents>>

\* manageEvent blocked in c <- url: the channel has room again.
manageMessagePushed ==
    /\ running
    /\ kpc = "pushing"
    /\ Len(chBackend) < ChanCap
    /\ chBackend' = Append(chBackend, [id |-> nextId, raw |-> kpending.raw])
    /\ nextId' = nextId + 1
    /\ purgeEvents' = [purgeEvents EXCEPT ![kpending.tag, "ok", kpending.topic] = @ + 1]
    /\ kpc' = "running"
    /\ kpending' = NoPending
    /\ UNCHANGED <<pvars, dvars, svars, kworkers, MaxAge, now, maxts, consumerCloses, doneClosed, hpc,
                   sigchan, exitCode, kcount>>

\* manageEvent, case *kafka.Stats: the statistics go to a file; consume stays true.
manageStats ==
    /\ running
    /\ kpc = "running"
    /\ kcount < MaxEvents
    /\ kcount' = kcount + 1
    /\ UNCHANGED <<pvars, dvars, svars, kworkers, chBackend, nextId, MaxAge, now, maxts, purgeEvents, kpc,
                   kpending, consumerCloses, doneClosed, hpc, sigchan, exitCode>>

\* Mutant of afterError: Read returns at once, without closing anything.
afterErrorReturn == "terminated"

\* Where Read goes when manageEvent returned consume = false for a *kafka.Error.
afterError == "closing"

\* manageEvent, case *kafka.Error: consume = false ends the loop.
manageError ==
    /\ running
    /\ kpc = "running"
    /\ kpc' = afterError
    /\ UNCHANGED <<pvars, dvars, svars, kworkers, chBackend, nextId, MaxAge, now, maxts, purgeEvents,
                   kpending, consumerCloses, doneClosed, hpc, sigchan, exitCode, kcount>>

\* A backend worker takes a URL from the ingress channel.
IngressDrain ==
    /\ running
    /\ chBackend # <<>>
    /\ chBackend' = Tail(chBackend)
    /\ UNCHANGED <<pvars, dvars, svars, kworkers, nextId, kvars>>

\* SIGINT or SIGTERM arrives and signal.Notify buffers it in sigchan.  Only the
\* first signal is followed: the handler never returns to its range loop, so a
\* later one stays in sigchan unread.
Signal ==
    /\ running
    /\ sigchan = 0
    /\ hpc = "idle"
    /\ sigchan' = 1
    /\ UNCHANGED <<pvars, dvars, svars, kworkers, chBackend, nextId, MaxAge, now, maxts, purgeEvents, kpc,
                   kpending, consumerCloses, doneClosed, hpc, exitCode, kcount>>

\* main's signal goroutine: for sig := range sigchan, then blocks in done <- m.
handlerRecvSignal ==
    /\ running
    /\ hpc = "idle"
    /\ sigchan > 0
    /\ sigchan' = sigchan - 1
    /\ hpc' = "send"
    /\ UNCHANGED <<pvars, dvars, svars, kworkers, chBackend, nextId, MaxAge, now, maxts, purgeEvents, kpc,
                   kpending, consumerCloses, doneClosed, exitCode, kcount>>

\* Read's select takes case <-k.Done while the handler sends: consume = false.
readShutdown ==
    /\ running
    /\ kpc = "running"
    /\ hpc = "send"
    /\ ~doneClosed
    /\ kpc' = "closing"
    /\ hpc' = "wait"
    /\ UNCHANGED <<pvars, dvars, svars, kworkers, chBackend, nextId, MaxAge, now, maxts, purgeEvents,
                   kpending, consumerCloses, doneClosed, sigchan, exitCode, kcount>>

\* The handler's done <- m on a channel Read already closed: a panic.
handlerSendOnClosed ==
    /\ running
    /\ hpc = "send"
    /\ doneClosed
    /\ exitCode' = 2
    /\ UNCHANGED <<pvars, dvars, svars, kworkers, chBackend, nextId, MaxAge, now, maxts, purgeEvents, kpc,
                   kpending, consumerCloses, doneClosed, hpc, sigchan, kcount>>

\* Mutant of readCloseConsumer: Read forgets to close the consumer.
readCloseConsumerSkipped(ok) ==
    /\ running
    /\ kpc = "closing"
    /\ kpc' = "closed"
    /\ UNCHANGED <<pvars, dvars, svars, kworkers, chBackend, nextId, MaxAge, now, maxts, purgeEvents,
                   kpending, consumerCloses, doneClosed, hpc, sigchan, exitCode, kcount>>

\* Read after the loop: k.Reader.Close(); an error is fatal, before close(k.Done).
readCloseConsumer(ok) ==
    /\ running
    /\ kpc = "closing"
    /\ consumerCloses' = consumerCloses + 1
    /\ IF ok
       THEN kpc' = "closed" /\ UNCHANGED exitCode
       ELSE exitCode' = 1 /\ UNCHANGED kpc
    /\ UNCHANGED <<pvars, dvars, svars, kworkers, chBackend, nextId, MaxAge, now, maxts, purgeEvents,
                   kpending, doneClosed, hpc, sigchan, kcount>>

\* Read returns: the deferred close(k.Done) runs.
readCloseDone ==
    /\ running
    /\ kpc = "closed"
    /\ doneClosed' = TRUE
    /\ kpc' = "terminated"
    /\ UNCHANGED <<pvars, dvars, svars, kworkers, chBackend, nextId, MaxAge, now, maxts, purgeEvents,
                   kpending, consumerCloses, hpc, sigchan, exitCode, kcount>>

\* The handler's <-done returns once the channel is closed: os.Exit(0).
handlerExit ==
    /\ running
    /\ hpc = "wait"
    /\ doneClosed
    /\ exitCode' = 0
    /\ UNCHANGED <<pvars, dvars, svars, kworkers, chBackend, nextId, MaxAge, now, maxts, purgeEvents, kpc,
                   kpending, consumerCloses, doneClosed, hpc, sigchan, kcount>>

NextKafka ==
    \/ \E ok \in BOOLEAN : Subscribe(ok)
    \/ KafkaTick
    \/ \E ptr \in TopicPtrs, data \in Payloads : manageMessage(ptr, data)
    \/ manageMessagePushed
    \/ manageStats
    \/ manageError
    \/ IngressDrain
    \/ Signal
    \/ handlerRecvSignal
    \/ readShutdown
    \/ handlerSendOnClosed
    \/ \E ok \in BOOLEAN : readCloseConsumer(ok)
    \/ readCloseDone
    \/ handlerExit

SpecKafka == InitKafka /\ [][NextKafka]_vars

\* The steps of the program's own goroutines.  The arrival of events, of signals
\* and of wall-clock time is left to the environment.
KafkaProgramSteps ==
    \/ Subscribe(TRUE)
    \/ manageMessagePushed
    \/ IngressDrain
    \/ handlerRecvSignal
    \/ readShutdown
    \/ handlerSendOnClosed
    \/ readCloseConsumer(TRUE)
    \/ readCloseDone
    \/ handlerExit

\* The Go scheduler runs every goroutine that can take a step.
SpecKafkaLive == InitKafka /\ [][NextKafka]_vars /\ WF_vars(KafkaProgramSteps)

\* ----------------------------------------------------- worker specification

NextWorkers ==
    \/ \E raw \in RawURLs : IngressPush(raw)
    \/ \E w \in BackendWorkers : backendWorkerRecv(w)
    \/ \E w \in BackendWorkers, r \in SendResults : backendWorkerSendReturn(w, r)
    \/ SendFatal
    \/ Tick
    \/ \E i \in 1..Len(timers) : delayedPurge(i)
    \/ \E f \in FrontendWorkers : frontendWorkerRecv(f)
    \/ \E f \in FrontendWorkers, r \in SendResults : frontendWorkerSendReturn(f, r)

SpecWorkers == InitWorkers /\ [][NextWorkers]_vars

\* A run configured with a host filter (-host_regex) and a handoff delay
\* (-frontend_delay) above zero.
InitPipeline ==
    /\ InitWorkers
    /\ re # Nil
    /\ frontendDelay = MaxDelay

\* The scheduler runs every worker goroutine that can take a step, every Send
\* call that does not end the process returns, time passes, and the runtime
\* runs the function of a timer that is due.  The arrival of URLs is left to
\* the ingress.
SpecPipelineLive ==
    /\ InitPipeline
    /\ [][NextWorkers]_vars
    /\ WF_vars(\E w \in BackendWorkers : backendWorkerRecv(w))
    /\ WF_vars(\E w \in BackendWorkers, r \in SendResults : backendWorkerSendReturn(w, r))
    /\ WF_vars(Tick)
    /\ WF_vars(\E i \in 1..Len(timers) : delayedPurge(i))
    /\ WF_vars(\E f \in FrontendWorkers : frontendWorkerRecv(f))
    /\ WF_vars(\E f \in FrontendWorkers, r \in SendResults : frontendWorkerSendReturn(f, r))

\* ------------------------------------------- one backend worker in isolation

\* The test's input channel after the test pushed its URLs: its capacity
\* exceeds their number.
InitBackendWorker ==
    /\ re \in Regexes
    /\ frontendDelay \in 0..MaxDelay
    /\ \E input \in [Ids -> RawURLs] :
          /\ chBackend = [i \in Ids |-> [id |-> i, raw |-> input[i]]]
          /\ hist = [i \in Ids |-> [NoHist EXCEPT !.raw = input[i], !.pushed = TRUE]]
    /\ nextId = MaxURLs + 1
    /\ chFrontend = <<>>
    /\ bpc = [w \in BackendWorkers |-> "recv"]
    /\ bcur = [w \in BackendWorkers |-> NoItem]
    /\ fpc = [f \in FrontendWorkers |-> "recv"]
    /\ fcur = [f \in FrontendWorkers |-> NoItem]
    /\ timers = <<>>
    /\ purgeRequests = [l \in Layers, s \in Statuses |-> 0]
    /\ alive = TRUE
    /\ MaxAge = 0
    /\ now = 1
    /\ maxts = <<>>
    /\ purgeEvents = [g \in Tags, s \in EventStatuses, t \in TopicLabels |-> 0]
    /\ kpc = "init"
    /\ kpending = NoPending
    /\ consumerCloses = 0
    /\ doneClosed = FALSE
    /\ hpc = "idle"
    /\ sigchan = 0
    /\ exitCode = -1
    /\ kcount = 0
    /\ TCPPurgerNew("127.0.0.1:3128")
    /\ MultiCastReaderNew
    /\ HTTPPurgerNew("127.0.0.1:80")
    /\ LagIdle

\* The one worker the test starts.
TestWorker == 1

NextBackendWorker ==
    \/ backendWorkerRecv(TestWorker)
    \/ \E r \in SendResults : backendWorkerSendReturn(TestWorker, r)
    \/ Tick
    \/ \E i \in 1..Len(timers) : delayedPurge(i)

SpecBackendWorker == InitBackendWorker /\ [][NextBackendWorker]_vars

\* ------------------------------------------- raw-TCP purge client: actions

\* Send calls made on one purger.
MaxSends == 2

InitSend ==
    /\ re = Nil
    /\ frontendDelay = 0
    /\ chBackend = <<>>
    /\ chFrontend = <<>>
    /\ bpc = [w \in BackendWorkers |-> "recv"]
    /\ bcur = [w \in BackendWorkers |-> NoItem]
    /\ fpc = [f \in FrontendWorkers |-> "recv"]
    /\ fcur = [f \in FrontendWorkers |-> NoItem]
    /\ timers = <<>>
    /\ purgeRequests = [l \in Layers, s \in Statuses |-> 0]
    /\ alive = TRUE
    /\ nextId = 1
    /\ hist = [i \in Ids |-> NoHist]
    /\ MaxAge = 0
    /\ now = 1
    /\ maxts = <<>>
    /\ purgeEvents = [g \in Tags, s \in EventStatuses, t \in TopicLabels |-> 0]
    /\ kpc = "init"
    /\ kpending = NoPending
    /\ consumerCloses = 0
    /\ doneClosed = FALSE
    /\ hpc = "idle"
    /\ sigchan = 0
    /\ exitCode = -1
    /\ kcount = 0
    /\ \E a \in Addrs : TCPPurgerNew(a)
    /\ MultiCastReaderNew
    /\ HTTPPurgerNew("127.0.0.1:80")
    /\ LagIdle

\* NewTCPPurger: conn: connOrFatal(addr).
NewTCPPurger ==
    /\ tpc = "new"
    /\ tpc' = "dial"
    /\ dialI' = firstDialI
    /\ dialFor' = "new"
    /\ slept' = <<>>
    /\ UNCHANGED <<pvars, dvars, wvars, kvars, destAddr, conn, sendArgs, sendI, writes, reconnects,
                   dialed, sendRet, tcpErrors, sendCalls, texit>>

\* Mutant of sendLoop: one attempt too many.
sendLoopOneMore(i) == i <= sendAttempts

\* Send's loop condition: i < sendAttempts.
sendLoop(i) == i < sendAttempts

\* Mutant of dialLoop: one dial too few.
dialLoopOneLess(i) == i < connectionAttempts - 1

\* connOrFatal's loop condition: i < connectionAttempts.
dialLoop(i) == i < connectionAttempts

\* Mutant of connOrFatalAddr: a reconnect goes to the other address.
connOrFatalAddrOther == CHOOSE a \in Addrs : a # destAddr

\* The addr argument of connOrFatal: NewTCPPurger passes the address it also
\* stores as destAddr, and Send passes p.destAddr.
connOrFatalAddr == destAddr

\* Mutant of dialOk: after a reconnect Send starts its attempts over.
dialOkStartsOver ==
    /\ tpc = "dial"
    /\ dialLoop(dialI)
    /\ conn' = Dial(connOrFatalAddr)
    /\ dialed' = dialed \cup {connOrFatalAddr}
    /\ IF dialFor = "new"
       THEN /\ tpc' = "idle"
            /\ UNCHANGED <<sendI, sendRet>>
       ELSE /\ sendI' = 0
            /\ tpc' = "write"
            /\ UNCHANGED sendRet
    /\ dialI' = 0
    /\ slept' = <<>>
    /\ UNCHANGED <<pvars, dvars, wvars, kvars, destAddr, sendArgs, dialFor, writes, reconnects,
                   tcpErrors, sendCalls, texit>>

\* connOrFatal: net.Dial succeeds and the connection is returned.  To
\* NewTCPPurger it is the purger's connection; to Send it replaces p.conn, and
\* `continue` starts the next attempt or, the attempts used up, Send fails.
dialOk ==
    /\ tpc = "dial"
    /\ dialLoop(dialI)
    /\ conn' = Dial(connOrFatalAddr)
    /\ dialed' = dialed \cup {connOrFatalAddr}
    /\ IF dialFor = "new"
       THEN /\ tpc' = "idle"
            /\ UNCHANGED <<sendI, sendRet>>
       ELSE /\ sendI' = sendI + 1
            /\ IF sendLoop(sendI + 1)
               THEN tpc' = "write" /\ UNCHANGED sendRet
               ELSE /\ tpc' = "idle"
                    /\ sendRet' = [returned |-> TRUE, status |-> <<>>,
                                   err |-> FailedPurging(sendArgs.uri, sendArgs.host,
                                                         sendAttempts)]
    /\ dialI' = 0
    /\ slept' = <<>>
    /\ UNCHANGED <<pvars, dvars, wvars, kvars, destAddr, sendArgs, dialFor, writes, reconnects,
                   tcpErrors, sendCalls, texit>>

\* connOrFatal: net.Dial fails; sleep 2^i milliseconds and go round the loop.
dialFail ==
    /\ tpc = "dial"
    /\ dialLoop(dialI)
    /\ dialed' = dialed \cup {connOrFatalAddr}
    /\ slept' = Append(slept, Pow2(dialI))
    /\ dialI' = dialI + 1
    /\ UNCHANGED <<pvars, dvars, wvars, kvars, destAddr, conn, tpc, sendArgs, sendI, dialFor, writes,
                   reconnects, sendRet, tcpErrors, sendCalls, texit>>

\* connOrFatal: the loop is over, log.Fatal("Giving up connecting to ", addr).
dialGiveUp ==
    /\ tpc = "dial"
    /\ ~dialLoop(dialI)
    /\ tpc' = "exited"
    /\ texit' = 1
    /\ UNCHANGED <<pvars, dvars, wvars, kvars, destAddr, conn, sendArgs, sendI, dialI, dialFor, slept,
                   writes, reconnects, dialed, sendRet, tcpErrors, sendCalls>>

\* A worker calls p.Send(host, uri).
SendCall(req) ==
    /\ tpc = "idle"
    /\ sendCalls < MaxSends
    /\ sendCalls' = sendCalls + 1
    /\ sendArgs' = req
    /\ sendI' = 0
    /\ writes' = 0
    /\ reconnects' = 0
    /\ sendRet' = NoRet
    /\ tpc' = IF sendLoop(0) THEN "write" ELSE "idle"
    /\ UNCHANGED <<pvars, dvars, wvars, kvars, destAddr, conn, dialI, dialFor, slept, dialed,
                   tcpErrors, texit>>

\* Send: fmt.Fprintf(p.conn, purgeReq, uri, host) succeeds.
writeOk ==
    /\ tpc = "write"
    /\ writes' = writes + 1
    /\ tpc' = "read"
    /\ tcpWire' = purgeReq(sendArgs.uri, sendArgs.host)
    /\ UNCHANGED <<hclient, lagvars, dvars, wvars, kvars, destAddr, conn, sendArgs, sendI, dialI, dialFor, slept,
                   reconnects, dialed, sendRet, tcpErrors, sendCalls, texit>>

\* Send: the write or the read fails: count the error and reconnect.
ioFail ==
    /\ tcpErrors' = tcpErrors + 1
    /\ reconnects' = reconnects + 1
    /\ tpc' = "dial"
    /\ dialI' = firstDialI
    /\ dialFor' = "send"
    /\ slept' = <<>>

\* Send: the write fails.
writeFail ==
    /\ tpc = "write"
    /\ writes' = writes + 1
    /\ ioFail
    /\ UNCHANGED <<pvars, dvars, wvars, kvars, destAddr, conn, sendArgs, sendI, dialed, sendRet,
                   sendCalls, texit>>

\* Send: p.conn.Read(buffer) fails.
readFail ==
    /\ tpc = "read"
    /\ ioFail
    /\ UNCHANGED <<pvars, dvars, wvars, kvars, destAddr, conn, sendArgs, sendI, writes, dialed,
                   sendRet, sendCalls, texit>>

\* Send: the read succeeds; return string(buffer[9:12]), nil.
readOk(resp) ==
    /\ tpc = "read"
    /\ sendRet' = [returned |-> TRUE, status |-> statusOf(resp), err |-> NilErr]
    /\ tpc' = "idle"
    /\ UNCHANGED <<pvars, dvars, wvars, kvars, destAddr, conn, sendArgs, sendI, dialI, dialFor, slept,
                   writes, reconnects, dialed, tcpErrors, sendCalls, texit>>

NextSend ==
    \/ NewTCPPurger
    \/ dialOk
    \/ dialFail
    \/ dialGiveUp
    \/ \E req \in SendRequests : SendCall(req)
    \/ writeOk
    \/ writeFail
    \/ readFail
    \/ \E resp \in Responses : readOk(resp)

SpecSend == InitSend /\ [][NextSend]_vars

\* ------------------------------------------- HTTP purge client: actions

\* HTTPPurger.Send is called: build the request and set its Host; an error of
\* http.NewRequest is returned with an empty status.
httpSend(req) ==
    /\ httpPc = "idle"
    /\ httpCalls < MaxSends
    /\ httpCalls' = httpCalls + 1
    /\ httpArgs' = req
    /\ httpDo' = 0
    /\ httpResp' = NoResp
    /\ LET r == NewRequest("PURGE", httpDestAddr, req.uri)
       IN  IF r.err
           THEN /\ httpReq' = NoReq
                /\ httpRet' = [returned |-> TRUE, status |-> <<>>, err |-> "NewRequest"]
                /\ httpPc' = "idle"
           ELSE /\ httpReq' = [r.req EXCEPT !.Host = req.host]
                /\ httpRet' = NoHTTPRet
                /\ httpPc' = "do"
    /\ UNCHANGED <<httpDestAddr, httpWire, tcpWire, lagvars, dvars, wvars, kvars, svars>>

\* p.client.Do(req): the request is sent and the server answers with bytes; a
\* response that does not parse is an error of Do.
httpDoAnswered(bytes) ==
    /\ httpPc = "do"
    /\ httpDo' = httpDo + 1
    /\ httpWire' = httpWrite(httpReq)
    /\ LET r == ReadResponse(bytes)
       IN  IF r.err
           THEN /\ httpRet' = [returned |-> TRUE, status |-> <<>>, err |-> "Do"]
                /\ httpPc' = "idle"
                /\ UNCHANGED httpResp
           ELSE /\ httpResp' = r
                /\ httpPc' = "copy"
                /\ UNCHANGED httpRet
    /\ UNCHANGED <<httpDestAddr, httpArgs, httpReq, httpCalls, tcpWire, lagvars, dvars, wvars, kvars,
                   svars>>

\* Mutant of httpDoFailed: Send calls p.client.Do again after an error.
httpDoFailedRetried ==
    /\ httpPc = "do"
    /\ httpDo' = httpDo + 1
    /\ UNCHANGED <<httpDestAddr, httpPc, httpArgs, httpReq, httpResp, httpRet, httpCalls,
                   httpWire, tcpWire, lagvars, dvars, wvars, kvars, svars>>

\* p.client.Do(req) fails (no connection, no answer): return "", err.
httpDoFailed ==
    /\ httpPc = "do"
    /\ httpDo' = httpDo + 1
    /\ httpRet' = [returned |-> TRUE, status |-> <<>>, err |-> "Do"]
    /\ httpPc' = "idle"
    /\ UNCHANGED <<httpDestAddr, httpArgs, httpReq, httpResp, httpCalls, httpWire, tcpWire,
                   lagvars, dvars, wvars, kvars, svars>>

\* io.Copy(ioutil.Discard, resp.Body): on an error return "", err; else
\* return strconv.Itoa(resp.StatusCode), nil.
httpCopy(ok) ==
    /\ httpPc = "copy"
    /\ httpRet' = IF ok
                  THEN [returned |-> TRUE, status |-> Itoa(httpResp.StatusCode), err |-> Nil]
                  ELSE [returned |-> TRUE, status |-> <<>>, err |-> "Copy"]
    /\ httpPc' = "idle"
    /\ UNCHANGED <<httpDestAddr, httpArgs, httpReq, httpResp, httpDo, httpCalls, httpWire,
                   tcpWire, lagvars, dvars, wvars, kvars, svars>>

\* A raw-TCP client and an HTTP client built for the same server, which is up
\* and takes every request written to it, as in TestSendPurge.
InitSendPurge ==
    /\ re = Nil
    /\ frontendDelay = 0
    /\ chBackend = <<>>
    /\ chFrontend = <<>>
    /\ bpc = [w \in BackendWorkers |-> "recv"]
    /\ bcur = [w \in BackendWorkers |-> NoItem]
    /\ fpc = [f \in FrontendWorkers |-> "recv"]
    /\ fcur = [f \in FrontendWorkers |-> NoItem]
    /\ timers = <<>>
    /\ purgeRequests = [l \in Layers, s \in Statuses |-> 0]
    /\ alive = TRUE
    /\ nextId = 1
    /\ hist = [i \in Ids |-> NoHist]
    /\ MaxAge = 0
    /\ now = 1
    /\ maxts = <<>>
    /\ purgeEvents = [g \in Tags, s \in EventStatuses, t \in TopicLabels |-> 0]
    /\ kpc = "init"
    /\ kpending = NoPending
    /\ consumerCloses = 0
    /\ doneClosed = FALSE
    /\ hpc = "idle"
    /\ sigchan = 0
    /\ exitCode = -1
    /\ kcount = 0
    /\ \E a \in Addrs : TCPPurgerNew(a) /\ HTTPPurgerNew(a)
    /\ LagIdle
    /\ MultiCastReaderNew

NextSendPurge ==
    \/ NewTCPPurger
    \/ dialOk
    \/ \E req \in SendRequests : SendCall(req)
    \/ writeOk
    \/ \E resp \in Responses : readOk(resp)
    \/ \E req \in HTTPSendRequests : httpSend(req)
    \/ \E bytes \in Responses : httpDoAnswered(bytes)
    \/ httpDoFailed
    \/ \E ok \in BOOLEAN : httpCopy(ok)

SpecSendPurge == InitSendPurge /\ [][NextSendPurge]_vars

\* The steps of the reader's and of the signal handler's goroutines alone.
ReaderHandlerSteps ==
    \/ Subscribe(TRUE)
    \/ manageMessagePushed
    \/ handlerRecvSignal
    \/ readShutdown
    \/ handlerSendOnClosed
    \/ readCloseConsumer(TRUE)
    \/ readCloseDone
    \/ handlerExit

\* The scheduler runs the reader and the handler whenever they can take a step;
\* whether a backend worker ever takes a URL from the ingress channel is left
\* open (a worker can stay in a Send for any length of time).
SpecKafkaStalled == InitKafka /\ [][NextKafka]_vars /\ WF_vars(ReaderHandlerSteps)

\* ------------------------------------------------- lag bookkeeping: actions
\* The reader and a sampler share k.maxts.  setLag and GetLag take no lock, so
\* their map accesses are steps of their own that interleave freely.
InitLag ==
    /\ re = Nil
    /\ frontendDelay = 0
    /\ chBackend = <<>>
    /\ chFrontend = <<>>
    /\ bpc = [w \in BackendWorkers |-> "recv"]
    /\ bcur = [w \in BackendWorkers |-> NoItem]
    /\ fpc = [f \in FrontendWorkers |-> "recv"]
    /\ fcur = [f \in FrontendWorkers |-> NoItem]
    /\ timers = <<>>
    /\ purgeRequests = [l \in Layers, s \in Statuses |-> 0]
    /\ alive = TRUE
    /\ nextId = 1
    /\ hist = [i \in Ids |-> NoHist]
    /\ MaxAge \in 0..MaxAgeLimit
    /\ now = 1
    /\ maxts = <<>>
    /\ purgeEvents = [g \in Tags, s \in EventStatuses, t \in TopicLabels |-> 0]
    /\ kpc = "running"
    /\ kpending = NoPending
    /\ consumerCloses = 0
    /\ doneClosed = FALSE
    /\ hpc = "idle"
    /\ sigchan = 0
    /\ exitCode = -1
    /\ kcount = 0
    /\ TCPPurgerNew("127.0.0.1:3128")
    /\ MultiCastReaderNew
    /\ HTTPPurgerNew("127.0.0.1:80")
    /\ LagIdle

lagRest == <<MaxAge, now, purgeEvents, kpc, kpending, consumerCloses, doneClosed, hpc,
             sigchan, kcount>>

\* manageEvent calls k.setLag(ts, topic) for a decoded event.
setLagCall(t, topic) ==
    /\ running
    /\ lagRecorded(MaxAge)
    /\ setLagPc = "idle"
    /\ setLagPc' = "check"
    /\ setLagArgs' = [t |-> t, topic |-> topic]
    /\ UNCHANGED <<hclient, tcpWire, getLagPc, getLagTopic, getLagRet, dvars, svars, wvars,
                   lagRest, maxts, exitCode>>

\* setLag: the lookup; the assignment to the map begins when the topic is new
\* or t is after the recorded time.
setLagCheck ==
    /\ running
    /\ setLagPc = "check"
    /\ setLagPc' = IF setLag(maxts, setLagArgs.t, setLagArgs.topic) # maxts
                   THEN "writing" ELSE "idle"
    /\ UNCHANGED <<hclient, tcpWire, setLagArgs, getLagPc, getLagTopic, getLagRet, dvars,
                   svars, wvars, lagRest, maxts, exitCode>>

\* setLag: the assignment k.maxts[topic] = t completes.
setLagWritten ==
    /\ running
    /\ setLagPc = "writing"
    /\ maxts' = setLag(maxts, setLagArgs.t, setLagArgs.topic)
    /\ setLagPc' = "idle"
    /\ UNCHANGED <<hclient, tcpWire, setLagArgs, getLagPc, getLagTopic, getLagRet, dvars,
                   svars, wvars, lagRest, exitCode>>

\* A sampler calls k.GetLag(topic).
GetLagCall(topic) ==
    /\ running
    /\ getLagPc = "idle"
    /\ getLagPc' = "read"
    /\ getLagTopic' = topic
    /\ UNCHANGED <<hclient, tcpWire, setLagPc, setLagArgs, getLagRet, dvars, svars, wvars,
                   lagRest, maxts, exitCode>>

\* GetLag: the lookup and the return.  A lookup while an assignment to the map
\* is in progress is a data race: the runtime may stop the process ("concurrent
\* map read and map write"), or the lookup sees the map before or after the
\* assignment.
GetLagRead ==
    /\ running
    /\ getLagPc = "read"
    /\ getLagPc' = "idle"
    /\ IF setLagPc = "writing"
       THEN \/ exitCode' = 2 /\ UNCHANGED getLagRet
            \/ /\ \E m \in {maxts, setLag(maxts, setLagArgs.t, setLagArgs.topic)} :
                    getLagRet' = IF getLagTopic \notin DOMAIN m \/ m[getLagTopic] = ZeroTime
                                 THEN 0 ELSE now - m[getLagTopic]
               /\ UNCHANGED exitCode
       ELSE getLagRet' = GetLag(getLagTopic) /\ UNCHANGED exitCode
    /\ UNCHANGED <<hclient, tcpWire, setLagPc, setLagArgs, getLagTopic, dvars, svars, wvars,
                   lagRest, maxts>>

NextLag ==
    \/ KafkaTick
    \/ \E t \in ZeroTime..MaxNow, topic \in TopicLabels : setLagCall(t, topic)
    \/ setLagCheck
    \/ setLagWritten
    \/ \E topic \in TopicLabels : GetLagCall(topic)
    \/ GetLagRead

SpecLag == InitLag /\ [][NextLag]_vars

\* ------------------------------------------------ multicast reader: actions

\* Datagrams read and direct extractURL calls made in one run.
MaxDatagrams == 2

InitDecode ==
    /\ re = Nil
    /\ frontendDelay = 0
    /\ chBackend = <<>>
    /\ chFrontend = <<>>
    /\ bpc = [w \in BackendWorkers |-> "recv"]
    /\ bcur = [w \in BackendWorkers |-> NoItem]
    /\ fpc = [f \in FrontendWorkers |-> "recv"]
    /\ fcur = [f \in FrontendWorkers |-> NoItem]
    /\ timers = <<>>
    /\ purgeRequests = [l \in Layers, s \in Statuses |-> 0]
    /\ alive = TRUE
    /\ nextId = 1
    /\ hist = [i \in Ids |-> NoHist]
    /\ MaxAge = 0
    /\ now = 1
    /\ maxts = <<>>
    /\ purgeEvents = [g \in Tags, s \in EventStatuses, t \in TopicLabels |-> 0]
    /\ kpc = "init"
    /\ kpending = NoPending
    /\ consumerCloses = 0
    /\ doneClosed = FALSE
    /\ hpc = "idle"
    /\ sigchan = 0
    /\ exitCode = -1
    /\ kcount = 0
    /\ TCPPurgerNew("127.0.0.1:3128")
    /\ MultiCastReaderNew
    /\ HTTPPurgerNew("127.0.0.1:80")
    /\ LagIdle

\* The counters after an extractURL call with result res.
countPacket(res) ==
    /\ bytesRead' = bytesRead + res.read
    /\ htcpPackets' = IF res.state = ""
                      THEN htcpPackets
                      ELSE [htcpPackets EXCEPT ![res.state] = @ + 1]

\* readFromAddrs: one round of the loop.  The datagram is read into the buffer
\* and decoded; an error is logged and the loop continues, a URL is pushed on
\* the ingress channel, which blocks while the channel is full.
readDatagram(d) ==
    /\ mexit = -1
    /\ mpc = "read"
    /\ mcount < MaxDatagrams
    /\ mcount' = mcount + 1
    /\ LET buf == ReadFrom(buffer, d)
           res == extractURL(buf, Len(d))
       IN  /\ buffer' = buf
           /\ lastCall' = [buf |-> buf, n |-> Len(d), dgram |-> d, res |-> res]
           /\ countPacket(res)
           /\ IF res.fault
              THEN /\ mpc' = "panicked" /\ mexit' = 2
                   /\ UNCHANGED <<murl, chBackend, nextId>>
              ELSE IF res.err
              THEN UNCHANGED <<mpc, mexit, murl, chBackend, nextId>>
              ELSE IF Len(chBackend) < ChanCap
              THEN /\ chBackend' = Append(chBackend, [id |-> nextId, raw |-> res.url])
                   /\ nextId' = nextId + 1
                   /\ UNCHANGED <<mpc, mexit, murl>>
              ELSE /\ mpc' = "push" /\ murl' = res.url
                   /\ UNCHANGED <<mexit, chBackend, nextId>>
    /\ UNCHANGED <<pvars, svars, kvars, kworkers>>

\* readFromAddrs: p.ReadFrom fails; the error is logged and the loop continues.
readFromError ==
    /\ mexit = -1
    /\ mpc = "read"
    /\ mcount < MaxDatagrams
    /\ mcount' = mcount + 1
    /\ UNCHANGED <<pvars, svars, kvars, kworkers, chBackend, nextId, buffer, mpc, murl,
                   htcpPackets, bytesRead, lastCall, mexit>>

\* readFromAddrs blocked in churls <- url: the channel has room again.
readDatagramPushed ==
    /\ mexit = -1
    /\ mpc = "push"
    /\ Len(chBackend) < ChanCap
    /\ chBackend' = Append(chBackend, [id |-> nextId, raw |-> murl])
    /\ nextId' = nextId + 1
    /\ mpc' = "read"
    /\ murl' = <<>>
    /\ UNCHANGED <<pvars, svars, kvars, kworkers, buffer, htcpPackets, bytesRead, lastCall,
                   mcount, mexit>>

\* The arguments of the direct calls TestMulticastExtractURL makes before it
\* fills in a frame.
DirectCalls ==
    { [buf |-> NilBuffer, n |-> 0],
      [buf |-> makeBytes(maxDatagramSize), n |-> 5],
      [buf |-> Bytes([i \in 1..maxDatagramSize |-> IF i = 7 THEN 1 ELSE 0]),
       n |-> maxDatagramSize] }

\* extractURL called directly, outside the reader's loop.
extractURLCall(c) ==
    /\ mexit = -1
    /\ mpc = "read"
    /\ mcount < MaxDatagrams
    /\ mcount' = mcount + 1
    /\ LET res == extractURL(c.buf, c.n)
       IN  /\ lastCall' = [buf |-> c.buf, n |-> c.n, dgram |-> <<>>, res |-> res]
           /\ countPacket(res)
           /\ IF res.fault
              THEN mpc' = "panicked" /\ mexit' = 2
              ELSE UNCHANGED <<mpc, mexit>>
    /\ UNCHANGED <<pvars, svars, kvars, kworkers, chBackend, nextId, buffer, murl>>

\* A backend worker takes a URL from the ingress channel.
decodeDrain ==
    /\ mexit = -1
    /\ chBackend # <<>>
    /\ chBackend' = Tail(chBackend)
    /\ UNCHANGED <<pvars, svars, kvars, kworkers, nextId, dvars>>

NextDecode ==
    \/ \E d \in Datagrams : readDatagram(d)
    \/ readFromError
    \/ readDatagramPushed
    \/ \E c \in DirectCalls : extractURLCall(c)
    \/ decodeDrain

SpecDecode == InitDecode /\ [][NextDecode]_vars

\* ------------------------------------------------- properties of the workers

RECURSIVE SumOver(_, _)
\* The sum of f[i] for i in S.
SumOver(f, S) ==
    IF S = {} THEN 0
    ELSE LET i == CHOOSE x \in S : TRUE IN f[i] + SumOver(f, S \ {i})

\* Number of pending timers for ingress item i.
PendingTimers(i) == Cardinality({j \in 1..Len(timers) : timers[j].id = i})

\* The URL item i parses to.
ParsedURL(i) == urlParse(hist[i].raw).url

\* Ingress item i parses and passes the host filter.
Accepted(i) ==
    /\ hist[i].raw.valid
    /\ re # Nil => reMatch(re, hist[i].raw.host)

\* The pipeline has nothing left to do.
Drained ==
    /\ alive
    /\ chBackend = <<>> /\ chFrontend = <<>> /\ timers = <<>>
    /\ \A w \in BackendWorkers : bpc[w] = "recv"
    /\ \A f \in FrontendWorkers : fpc[f] = "recv"

\* C1: a URL taken by a backend worker and sent to the backend without error has
\* exactly one deferred handoff created for it, and that handoff puts the same
\* parsed URL on the frontend channel exactly once: the handoff is either still
\* pending or has enqueued once, never neither and never both or twice.
C1_ScheduledExactlyOnce ==
    \A i \in Ids :
        (hist[i].beRet >= 1 /\ hist[i].beOk) =>
            /\ hist[i].beCall = 1 /\ hist[i].beRet = 1
            /\ hist[i].sched = 1
            /\ hist[i].enq + PendingTimers(i) = 1
            /\ \A j \in 1..Len(timers) : timers[j].id = i => timers[j].url = ParsedURL(i)
            /\ hist[i].enq = 1 => hist[i].enqUrl = ParsedURL(i)

\* C1 witness: with two backend workers busy, a URL sent without error has been
\* enqueued on the frontend channel.
C1_Witness ==
    \E i \in Ids :
        /\ hist[i].beOk /\ hist[i].enq = 1 /\ PendingTimers(i) = 0
        /\ \E j \in Ids \ {i} : hist[j].beCall = 1

\* C2: the frontend stage sees a URL only after a backend worker called Send for
\* it and that call returned: no URL is on the frontend channel, at a frontend
\* worker or sent to the frontend without a returned backend Send.
C2_BackendBeforeFrontend ==
    /\ \A i \in Ids :
          (hist[i].sched > 0 \/ hist[i].enq > 0 \/ hist[i].feCall > 0) =>
              hist[i].beCall >= 1 /\ hist[i].beRet >= 1
    /\ \A j \in 1..Len(chFrontend) : hist[chFrontend[j].id].beRet >= 1
    /\ \A f \in FrontendWorkers : fpc[f] = "send" => hist[fcur[f].id].beRet >= 1

\* C2 witness: a frontend worker is sending a URL.
C2_Witness == \E f \in FrontendWorkers : fpc[f] = "send" /\ hist[fcur[f].id].feCall = 1

\* C3: a URL is enqueued on the frontend channel only by a timer that was started
\* when the backend Send returned and that ran for frontendDelay.
C3_DelayLowerBound ==
    /\ \A i \in Ids :
          hist[i].enq > 0 => hist[i].beRet >= 1 /\ hist[i].waited >= frontendDelay
    /\ \A j \in 1..Len(timers) : hist[timers[j].id].beRet >= 1

\* C3 witness: with a positive delay, a URL sent to the backend without error is
\* on the frontend channel.
C3_Witness ==
    /\ frontendDelay > 0
    /\ \E j \in 1..Len(chFrontend) :
          hist[chFrontend[j].id].beOk /\ hist[chFrontend[j].id].waited = frontendDelay

\* C4: with a host regex, a URL whose host does not match causes no backend Send,
\* no metric increment and no handoff; a URL that parses and matches is sent to
\* the backend when it is taken, and to both tiers once the pipeline has drained.
C4_HostFilter ==
    re # Nil =>
        /\ \A i \in Ids :
              (hist[i].raw.valid /\ ~reMatch(re, hist[i].raw.host)) =>
                  /\ hist[i].beCall = 0 /\ hist[i].sched = 0 /\ hist[i].enq = 0
                  /\ hist[i].feCall = 0
                  /\ PendingTimers(i) = 0
        /\ SumOver([s \in Statuses |-> purgeRequests["backend", s]], Statuses)
              = Cardinality({i \in Ids : Accepted(i) /\ hist[i].beRet = 1})
        /\ \A i \in Ids :
              (hist[i].taken /\ Accepted(i)) => hist[i].beCall = 1
        /\ Drained =>
              \A i \in Ids :
                  (hist[i].taken /\ Accepted(i)) =>
                      hist[i].beRet = 1 /\ hist[i].feRet = 1

\* C4 witness: under a regex one URL was dropped by the filter and another was
\* purged on both tiers.
C4_Witness ==
    /\ re # Nil
    /\ Drained
    /\ \E i, j \in Ids :
          /\ hist[i].taken /\ hist[i].raw.valid /\ ~reMatch(re, hist[i].raw.host)
          /\ hist[j].taken /\ Accepted(j) /\ hist[j].feRet = 1

\* ---------------------------------------------- properties of the Kafka reader

\* The payload decodes: it is JSON and carries meta.uri.
Decodable(data) == data.json /\ data.hasUri

\* The payload decodes: NewResourceChangeFromJSON returns an event and no error.
Decoded(data) == Decodable(data) /\ ~decodePanics(data)

\* The effective timestamp of a decodable payload decoded at time t.
EffectiveTs(data, t) == GetTS(NewResourceChangeFromJSON(data, t).rc)

\* The tag label of a decodable payload.
TagLabel(data) == IF Len(data.tags) > 0 THEN data.tags[1] ELSE ""

\* purgeEvents changed by exactly one increment, of the given label values.
CountedOnce(tag, status, topic) ==
    purgeEvents' = [purgeEvents EXCEPT ![tag, status, topic] = @ + 1]

\* Number of decoded (ok or expired) events counted for a topic.
DecodedOn(topic) ==
    SumOver([g \in Tags |-> purgeEvents[g, "ok", topic] + purgeEvents[g, "expired", topic]],
            Tags)

\* C5: with MaxAge > 0, a decoded event older than MaxAge (strictly) is not pushed,
\* is counted expired and still updates the lag of its topic; an event at most
\* MaxAge old is pushed (at once, or when the full channel has room) with status ok.
C5_MaxAgeGate ==
    [][/\ \A ptr \in TopicPtrs, data \in Payloads :
            (MaxAge > 0 /\ Decoded(data) /\ manageMessage(ptr, data)) =>
                LET ts == EffectiveTs(data, now)
                    topic == topicOf(ptr)
                IN  /\ topic \in DOMAIN maxts' /\ maxts'[topic] >= ts
                    /\ IF now - ts > MaxAge
                       THEN /\ chBackend' = chBackend /\ nextId' = nextId
                            /\ kpc' = "running"
                            /\ CountedOnce(TagLabel(data), "expired", topic)
                       ELSE \/ /\ chBackend' =
                                     Append(chBackend, [id |-> nextId, raw |-> data.uri])
                               /\ CountedOnce(TagLabel(data), "ok", topic)
                            \/ /\ Len(chBackend) = ChanCap
                               /\ kpc' = "pushing" /\ kpending'.raw = data.uri
                               /\ kpending'.tag = TagLabel(data) /\ kpending'.topic = topic
                               /\ UNCHANGED <<chBackend, purgeEvents>>
       /\ manageMessagePushed =>
            /\ chBackend' = Append(chBackend, [id |-> nextId, raw |-> kpending.raw])
            /\ CountedOnce(kpending.tag, "ok", kpending.topic)
      ]_vars

\* C5 witness: under MaxAge > 0 one event was dropped as expired, its topic has a
\* lag entry, and one event exactly MaxAge old was pushed.
C5_Witness ==
    /\ MaxAge > 0
    /\ \E topic \in TopicLabels, g \in Tags :
          /\ purgeEvents[g, "expired", topic] = 1
          /\ topic \in DOMAIN maxts
          /\ now - maxts[topic] = MaxAge
          /\ \E h \in Tags : purgeEvents[h, "ok", topic] = 1
    /\ nextId = 2

\* C6: every decoded message event updates the lag state of its topic, whatever
\* MaxAge is: a topic with a decoded event counted has an entry in maxts.
C6_LagUpdatedOnEveryDecodedEvent ==
    \A topic \in TopicLabels : DecodedOn(topic) > 0 => topic \in DOMAIN maxts

\* C7: the lag mapping is monotone per topic: an entry, once set, stays and never
\* decreases; a message changes at most the entry of its own topic, and only to
\* a newer timestamp.
C7_LagMonotone ==
    [][/\ \A topic \in DOMAIN maxts :
            topic \in DOMAIN maxts' /\ maxts'[topic] >= maxts[topic]
       /\ \A ptr \in TopicPtrs, data \in Payloads :
            manageMessage(ptr, data) =>
                /\ \A topic \in TopicLabels \ {topicOf(ptr)} :
                      /\ topic \in DOMAIN maxts' <=> topic \in DOMAIN maxts
                      /\ topic \in DOMAIN maxts => maxts'[topic] = maxts[topic]
                /\ (/\ Decoded(data)
                    /\ topicOf(ptr) \in DOMAIN maxts
                    /\ EffectiveTs(data, now) <= maxts[topicOf(ptr)]) => maxts' = maxts
      ]_vars

\* C7 witness: two decoded events with different timestamps on one topic, one
\* dropped as expired; the stored maximum is the newer timestamp.
C7_Witness ==
    \E topic \in TopicLabels :
        /\ DecodedOn(topic) = 2 /\ topic \in DOMAIN maxts /\ maxts[topic] = 2
        /\ \E g \in Tags : purgeEvents[g, "expired", topic] = 1

\* C8: a message that is not JSON or lacks meta.uri is dropped: nothing is pushed,
\* the lag is untouched, the event is counted discarded, and the reader stays in
\* its loop.
C8_BadMessageDropped ==
    [][\A ptr \in TopicPtrs, data \in Payloads :
            (~Decodable(data) /\ manageMessage(ptr, data)) =>
                /\ chBackend' = chBackend /\ nextId' = nextId
                /\ maxts' = maxts
                /\ CountedOnce("", "discarded", topicOf(ptr))
                /\ kpc' = "running" /\ exitCode' = -1
      ]_vars

\* C8 witness: one event was discarded and a following one was pushed with ok.
C8_Witness ==
    /\ kcount = 2
    /\ \E topic \in TopicLabels :
          /\ purgeEvents["", "discarded", topic] = 1
          /\ \E g \in Tags : purgeEvents[g, "ok", topic] = 1
    /\ nextId = 2 /\ Len(chBackend) = 1

\* Read has left its loop.
LoopLeft == kpc \in {"closing", "closed", "terminated"}

\* C9: on shutdown Read leaves its loop, closes the consumer exactly once and only
\* then closes the shutdown channel; the handler, which sent and then waits on
\* that channel, can then exit, and exit code 0 comes only from this handshake.
C9_ShutdownHandshake ==
    /\ consumerCloses <= 1
    /\ doneClosed => consumerCloses = 1 /\ kpc = "terminated"
    /\ kpc = "closed" => consumerCloses = 1
    /\ hpc = "wait" => LoopLeft
    /\ (running /\ hpc = "wait" /\ doneClosed) => ENABLED handlerExit
    /\ exitCode = 0 =>
          hpc = "wait" /\ doneClosed /\ consumerCloses = 1 /\ kpc = "terminated"

\* C9 witness: the process exited with code 0 after a signal.
C9_Witness == exitCode = 0 /\ hpc = "wait" /\ doneClosed

\* C10: an error event ends the loop (Running to Closing); Read then closes the
\* consumer once, closes the shutdown channel and returns; message and stats
\* events never end the loop, which is left only on an error or a shutdown.
C10_ErrorEndsLoop ==
    [][/\ manageError => kpc = "running" /\ kpc' = "closing"
       /\ (kpc = "closing" /\ kpc' # kpc) => consumerCloses' = consumerCloses + 1
       /\ kpc' = "terminated" => consumerCloses' = 1 /\ doneClosed'
       /\ ((\E ptr \in TopicPtrs, data \in Payloads : manageMessage(ptr, data))
              \/ manageMessagePushed \/ manageStats) => kpc' \in {"running", "pushing"}
       /\ (~LoopLeft /\ LoopLeft') => manageError \/ readShutdown
      ]_vars

\* C10 witness: Read returned after an error event, no signal having arrived.
C10_Witness ==
    /\ kpc = "terminated" /\ consumerCloses = 1 /\ doneClosed
    /\ hpc = "idle" /\ sigchan = 0

\* Read returned after an error event: the loop was left with no shutdown
\* handshake, so the handler is not waiting on the channel.
TerminatedByError == kpc = "terminated" /\ doneClosed /\ hpc # "wait"

\* C11: a reader terminated by an error event eventually leads to process exit.
C11_ErrorLeadsToExit == TerminatedByError ~> ~running

\* What a failed Send returns to the worker.
SendFailure == [status |-> "", err |-> TRUE]

\* C14: when the backend Send fails, the worker still counts the request with
\* status "" and layer backend, still schedules the handoff of that URL, and
\* goes back to receiving; the process lives on, the URL is not put back on the
\* ingress channel and Send is never called twice for it.
C14_BackendFailureStillHandsOver ==
    [][/\ \A w \in BackendWorkers :
            backendWorkerSendReturn(w, SendFailure) =>
               /\ purgeRequests' =
                     [purgeRequests EXCEPT !["backend", ""] = @ + 1]
               /\ Len(timers') = Len(timers) + 1
               /\ timers'[Len(timers')] =
                     [id |-> bcur[w].id, url |-> bcur[w].url, elapsed |-> 0]
               /\ SubSeq(timers', 1, Len(timers)) = timers
               /\ bpc'[w] = "recv"
               /\ alive'
               /\ chBackend' = chBackend
       /\ \A i \in Ids : hist'[i].beCall <= 1
      ]_vars

\* C14 witness: the Send of the first URL failed, its handoff was scheduled
\* and counted with status "", and a worker went on to send the second URL.
C14_Witness ==
    /\ hist[1].beRet = 1 /\ ~hist[1].beOk /\ hist[1].sched = 1 /\ hist[1].beCall = 1
    /\ purgeRequests["backend", ""] = 1
    /\ hist[2].beCall = 1
    /\ alive

\* A handoff whose timer has fired and which waits for room on the frontend
\* channel.
BlockedHandoff(i) ==
    /\ i \in 1..Len(timers)
    /\ timers[i].elapsed >= frontendDelay
    /\ Len(chFrontend) = ChanCap

\* C15: the handoff never holds up the backend worker.  While the process
\* lives, a worker whose Send is in flight can always complete the step that
\* counts the request and schedules the handoff, and a worker that is receiving
\* can always take the next URL of the ingress channel, whatever the pending
\* timers and the frontend channel look like.
C15_HandoffNeverBlocksWorker ==
    \A w \in BackendWorkers :
        /\ (alive /\ bpc[w] = "send") =>
              \A r \in SendResults : ENABLED backendWorkerSendReturn(w, r)
        /\ (alive /\ bpc[w] = "recv" /\ chBackend # <<>>) =>
              ENABLED backendWorkerRecv(w)

\* C15 witness: the frontend channel is full, no frontend worker has taken
\* anything, the handoff of the second URL has fired and waits for room, and
\* the worker that scheduled it is receiving again.
C15_Witness ==
    /\ Len(chFrontend) = ChanCap
    /\ \A i \in Ids : hist[i].feCall = 0
    /\ \E i \in 1..Len(timers) : BlockedHandoff(i) /\ timers[i].id = 2
    /\ hist[2].beRet = 1
    /\ \A w \in BackendWorkers : bpc[w] = "recv"
    /\ alive

\* ------------------------------------------ properties of the ingress channel

SendSucceeded == sendRet.returned /\ sendRet.err.nil

\* A Send call has returned a failure.
SendFailed == sendRet.returned /\ ~sendRet.err.nil

\* C12: a Send call writes at most 10 requests; a failed write or read enters
\* the reconnect routine, whose connection replaces p.conn before the next
\* attempt; the first attempt whose write and read both succeed returns the
\* status with a nil error; after 10 failed attempts Send returns "" and an
\* error naming the host and the URI.
C12_SendAttempts ==
    [][/\ writes' <= 10 /\ sendI' <= 10
       /\ (writeFail \/ readFail) =>
             /\ tpc' = "dial" /\ dialFor' = "send" /\ dialI' = 7
             /\ reconnects' = reconnects + 1
             /\ ~sendRet'.returned
       /\ (dialOk /\ dialFor = "send") =>
             /\ conn' = Dial(destAddr)
             /\ sendI' = sendI + 1
             /\ IF sendI + 1 < 10
                THEN tpc' = "write" /\ ~sendRet'.returned
                ELSE SendFailed'
       /\ (\E resp \in Responses : readOk(resp)) =>
             /\ SendSucceeded' /\ tpc' = "idle"
             /\ writes' = sendI + 1 /\ reconnects' = sendI
       /\ SendSucceeded' =>
             /\ sendRet'.status \in {statusOf(resp) : resp \in Responses}
             /\ writes' = reconnects' + 1
       /\ SendFailed' =>
             /\ sendRet'.status = <<>>
             /\ sendRet'.err = FailedPurging(sendArgs'.uri, sendArgs'.host, 10)
             /\ writes' = 10 /\ reconnects' = 10 /\ sendI' = 10
      ]_vars

\* C12 witness: a Send call failed after 10 attempts, each followed by a
\* successful reconnect.
C12_Witness ==
    /\ SendFailed /\ writes = 10 /\ reconnects = 10
    /\ sendRet.err.uri = sendArgs.uri /\ sendRet.err.host = sendArgs.host
    /\ conn.open /\ texit = -1

\* The sleeps of connOrFatal, in milliseconds.
BackoffMs == <<128, 256, 512, 1024, 2048, 4096, 8192, 16384, 32768>>

\* C13: connOrFatal dials at most 9 times, for i = 7..15; it returns the
\* connection of the first successful dial, sleeps 2^i ms after the failed dial
\* of attempt i, and ends the process after the 9th failed dial; NewTCPPurger
\* goes through the same routine.
C13_ReconnectBudget ==
    /\ Len(slept) <= 9
    /\ slept = SubSeq(BackoffMs, 1, Len(slept))
    /\ tpc = "dial" => dialI = 7 + Len(slept)
    /\ (tpc = "dial" /\ Len(slept) < 9) =>
          ENABLED dialOk /\ ENABLED dialFail /\ ~ENABLED dialGiveUp
    /\ (tpc = "dial" /\ Len(slept) = 9) =>
          ENABLED dialGiveUp /\ ~ENABLED dialOk /\ ~ENABLED dialFail
    /\ texit # -1 => texit = 1 /\ tpc = "exited" /\ Len(slept) = 9
    /\ tpc \in {"idle", "write", "read"} => conn = Dial(destAddr) /\ slept = <<>>
    /\ tpc = "new" => conn = NoConn /\ sendCalls = 0
    /\ (dialFor = "new" /\ tpc \in {"dial", "exited"}) => conn = NoConn /\ sendCalls = 0

\* C13 witness: the initial connection of a purger failed 9 times and the
\* process was ended.
C13_Witness ==
    /\ texit = 1 /\ dialFor = "new" /\ sendCalls = 0
    /\ slept = BackoffMs /\ ~conn.open

\* ------------------------------------------- properties of the HTCP decoder

\* A step that calls extractURL.
DecodeStep ==
    \/ \E d \in Datagrams : readDatagram(d)
    \/ \E c \in DirectCalls : extractURLCall(c)

\* The 16-bit big-endian number at offset off (counted from 0) of bytes b, or
\* -1 when b ends before it.
FieldAt(b, off) ==
    IF off + 2 <= Len(b) THEN b[off + 1] * 256 + b[off + 2] ELSE -1

\* The method length and the URL length a frame states.
MethodLenOf(b) == FieldAt(b, 14)
UrlLenOf(b) == IF MethodLenOf(b) < 0 THEN -1 ELSE FieldAt(b, 14 + 2 + MethodLenOf(b))

\* The cases in which the decoder must reject: no buffer, fewer than 20 bytes,
\* an opcode other than 4, a URL length of zero.
MustReject(c) ==
    \/ c.buf.nil
    \/ c.n < 20
    \/ c.buf.bytes[7] # 4
    \/ UrlLenOf(c.buf.bytes) = 0

\* C17: when the buffer is absent, n < 20, the opcode is not 4 or the URL
\* length is zero, extractURL returns an error and no URL, the packet is
\* counted as bad, and nothing is pushed on the ingress channel.
C17_DecoderRejects ==
    [][(DecodeStep /\ MustReject(lastCall')) =>
          /\ lastCall'.res.err /\ ~lastCall'.res.fault
          /\ lastCall'.res.url = <<>>
          /\ htcpPackets' = [htcpPackets EXCEPT !["bad"] = @ + 1]
          /\ chBackend' = chBackend /\ nextId' = nextId
          /\ mpc' = "read" /\ murl' = <<>> /\ mexit' = -1
      ]_vars

\* C17 witness: a CLR frame of 20 bytes or more with URL length zero was
\* rejected after another rejected packet, and nothing was pushed.
C17_Witness ==
    /\ lastCall.res.err /\ lastCall.n >= 20
    /\ lastCall.buf.bytes[7] = 4 /\ UrlLenOf(lastCall.buf.bytes) = 0
    /\ htcpPackets["bad"] = 2 /\ htcpPackets["good"] = 0
    /\ chBackend = <<>> /\ nextId = 1 /\ mpc = "read"

\* A received datagram that is a CLR frame with its method and its non-empty
\* URL inside its n bytes.
WellFormed(d) ==
    /\ Len(d) >= 20
    /\ d[7] = 4
    /\ MethodLenOf(d) >= 0
    /\ UrlLenOf(d) > 0
    /\ 14 + 2 + MethodLenOf(d) + 2 + UrlLenOf(d) <= Len(d)

\* The URL a well-formed datagram carries.
CarriedURL(d) ==
    SubSeq(d, 14 + 2 + MethodLenOf(d) + 2 + 1, 14 + 2 + MethodLenOf(d) + 2 + UrlLenOf(d))

\* C18: for a datagram with opcode 4, well-formed length fields and a
\* non-empty URL, extractURL returns with no error exactly the urlLen bytes
\* after the URL length field at offset 14 + 2 + methodLen; that URL is what the
\* reader pushes.
C18_DecoderExtracts ==
    [][\A d \in Datagrams :
          (readDatagram(d) /\ WellFormed(d)) =>
             /\ ~lastCall'.res.err /\ ~lastCall'.res.fault
             /\ lastCall'.res.url = CarriedURL(d)
             /\ Len(lastCall'.res.url) = UrlLenOf(d)
             /\ htcpPackets' = [htcpPackets EXCEPT !["good"] = @ + 1]
             /\ \/ chBackend' = Append(chBackend, [id |-> nextId, raw |-> CarriedURL(d)])
                \/ /\ Len(chBackend) = ChanCap
                   /\ mpc' = "push" /\ murl' = CarriedURL(d)
      ]_vars

\* C18 witness: the frame of the long URL was decoded after another datagram
\* had been through the buffer, and its URL is on the ingress channel.
C18_Witness ==
    /\ lastCall.dgram = Frame(opCLR, 4, Method, 8, LongURL)
    /\ lastCall.res.url = LongURL /\ ~lastCall.res.err
    /\ mcount = 2
    /\ \E j \in 1..Len(chBackend) : chBackend[j].raw = LongURL

\* C19: every frame that is not well-formed is rejected with an error and
\* counted as bad, and no call faults.
C19_MalformedRejected ==
    /\ mexit = -1
    /\ ~lastCall.res.fault
    /\ (lastCall.dgram # <<>> /\ ~WellFormed(lastCall.dgram)) =>
          lastCall.res.err /\ lastCall.res.state = "bad"

\* ------------------------------------------ properties of one backend worker

\* C20: one backend worker takes the URLs in the order in which they were
\* placed on the ingress channel and calls Send for them in that order; when it
\* takes a URL, every URL placed before it has been taken and the Send made
\* for it has returned.
C20_WorkerDispatchOrder ==
    [][\A i \in Ids :
          (~hist[i].taken /\ hist'[i].taken) =>
             /\ \A j \in Ids : j < i =>
                   hist[j].taken /\ hist[j].beRet = hist[j].beCall
             /\ \A j \in Ids : j > i => ~hist'[j].taken /\ hist'[j].beCall = 0
             /\ \A w \in BackendWorkers : bcur[w] = NoItem
             /\ \A k \in 1..Len(chBackend') : chBackend'[k].id > i
      ]_vars

\* C20 witness: the Send of the first URL has returned and the Send of the
\* second is in flight, the channel having held both at once.
C20_Witness ==
    /\ hist[1].beCall = 1 /\ hist[1].beRet = 1
    /\ hist[2].beCall = 1 /\ hist[2].beRet = 0
    /\ bcur[TestWorker].id = 2 /\ bpc[TestWorker] = "send"
    /\ chBackend = <<>>

\* ------------------------------------------------- C21: what is sent as URI

\* The request URI as the program's description words it: the path, then "?"
\* and the raw query when there is one.
PathAndQuery(raw) ==
    IF raw.query # "" THEN raw.path \o "?" \o raw.query ELSE raw.path

\* The same with "/" standing for an empty path.
RootedPathAndQuery(raw) ==
    IF raw.path = "" THEN PathAndQuery([raw EXCEPT !.path = "/"]) ELSE PathAndQuery(raw)

\* Both tiers are sent the same pair, with the URL's host as the Host header.
SameHostBothTiers(i) ==
    /\ hist[i].beCall > 0 => hist[i].beSent.host = hist[i].raw.host
    /\ hist[i].feCall > 0 => hist[i].beCall > 0 /\ hist[i].feSent = hist[i].beSent

C22_OneAddress ==
    [][/\ destAddr' = destAddr
       /\ dialed' \subseteq {destAddr}
       /\ conn'.open => conn'.addr = destAddr]_vars

\* A client built for the frontend address has been through two Send calls
\* with failures and has reconnected, and holds a connection again.
C22_Witness ==
    /\ destAddr = "127.0.0.1:80"
    /\ sendCalls = MaxSends
    /\ tcpErrors >= 2
    /\ reconnects >= 1
    /\ conn.open
    /\ tpc = "write"

\* ------------------------------------------- C23: MaxAge = 0 ages nothing out

\* C23: with MaxAge = 0 the freshness gate is off: every decoded event is
\* pushed on the ingress channel (at once, or after waiting for room) and
\* counted with status ok however old its timestamp is, and no event is ever
\* counted expired.
C23_ZeroMaxAgeDisablesGate ==
    [][MaxAge = 0 =>
        /\ \A ptr \in TopicPtrs, data \in Payloads :
              (Decoded(data) /\ manageMessage(ptr, data)) =>
                  \/ /\ chBackend' = Append(chBackend, [id |-> nextId, raw |-> data.uri])
                     /\ CountedOnce(TagLabel(data), "ok", topicOf(ptr))
                  \/ /\ Len(chBackend) = ChanCap
                     /\ kpc' = "pushing" /\ kpending'.raw = data.uri
                     /\ kpending'.tag = TagLabel(data) /\ kpending'.topic = topicOf(ptr)
                     /\ UNCHANGED <<chBackend, purgeEvents>>
        /\ manageMessagePushed =>
              /\ chBackend' = Append(chBackend, [id |-> nextId, raw |-> kpending.raw])
              /\ CountedOnce(kpending.tag, "ok", kpending.topic)
        /\ \A g \in Tags, t \in TopicLabels : purgeEvents'[g, "expired", t] = 0
      ]_vars

\* With MaxAge = 0 the URL of the event that has no timestamp (the zero time,
\* older than any limit) is on the ingress channel and the event is counted ok.
C23_Witness ==
    /\ MaxAge = 0
    /\ \E k \in 1..Len(chBackend) : chBackend[k].raw = UndatedURI
    /\ purgeEvents["", "ok", "topic1"] = 1
    /\ kcount = 1
    /\ now = MaxNow

\* ------------------------------------------ C24: malformed timestamps

\* A dt member that is present and is not an RFC 3339 string.
Malformed(tok) == tok.kind \in {"bad", "digit"}

\* The member GetTS reads: root_event.dt when there is a root_event.
EffectiveDt(data) == IF data.hasRoot THEN data.rootDt ELSE data.dt

\* What the handling of a payload with meta.uri and a malformed dt must do:
\* the decoder returns the event, the malformed timestamp reads as the current
\* time, and the event is neither discarded nor, when it is the effective
\* timestamp that is malformed, expired: its URL is pushed with status ok or
\* waits for room on the channel.
ToleratesMalformedDt(ptr, data) ==
    LET d == NewResourceChangeFromJSON(data, now)
        topic == topicOf(ptr)
    IN  /\ ~d.err /\ ~d.panic /\ exitCode' = -1
        /\ Malformed(data.dt) => d.rc.Event.Dt = now
        /\ (data.hasRoot /\ Malformed(data.rootDt)) => d.rc.RootEvent.Dt = now
        /\ purgeEvents'["", "discarded", topic] = purgeEvents["", "discarded", topic]
        /\ Malformed(EffectiveDt(data)) =>
              \/ /\ chBackend' = Append(chBackend, [id |-> nextId, raw |-> data.uri])
                 /\ CountedOnce(TagLabel(data), "ok", topic)
              \/ /\ Len(chBackend) = ChanCap
                 /\ kpc' = "pushing" /\ kpending'.raw = data.uri
                 /\ UNCHANGED <<chBackend, purgeEvents>>

\* C24: a malformed meta.dt or root_event.dt never makes the event fail to
\* decode: the decoder returns the event with that timestamp set to the
\* current time, so an event with a valid meta.uri is never discarded or
\* expired because of the format of a timestamp.
C24_MalformedDtTolerated ==
    [][\A ptr \in TopicPtrs, data \in Payloads :
          (/\ Decodable(data)
           /\ Malformed(data.dt) \/ (data.hasRoot /\ Malformed(data.rootDt))
           /\ manageMessage(ptr, data)) => ToleratesMalformedDt(ptr, data)
      ]_vars

\* The same for timestamps that are malformed strings only, as in
\* TestNewResourceChangeFromJSONBadDt.
BadDtStringTolerated ==
    [][\A ptr \in TopicPtrs, data \in Payloads :
          (/\ Decodable(data)
           /\ data.dt.kind = "bad" \/ (data.hasRoot /\ data.rootDt.kind = "bad")
           /\ ~decodePanics(data)
           /\ manageMessage(ptr, data)) => ToleratesMalformedDt(ptr, data)
      ]_vars

\* ------------------------------------------ C25: the effective timestamp

\* The effective timestamp read off the payload: the time in root_event.dt when
\* there is a root_event, else the time in meta.dt (the current time for a
\* malformed member, the zero time for a missing one).
ExpectedTs(data) ==
    LET tok == EffectiveDt(data)
    IN  CASE tok.kind = "rfc3339" -> tok.t
          [] Malformed(tok) -> now
          [] OTHER -> ZeroTime

\* C25: GetTS of a decoded event is root_event.dt when the event has a
\* root_event and meta.dt otherwise, and that value is the one the reader
\* records as the topic's lag timestamp and compares with MaxAge.
C25_EffectiveTimestamp ==
    [][\A ptr \in TopicPtrs, data \in Payloads :
          (Decoded(data) /\ manageMessage(ptr, data)) =>
              LET e == ExpectedTs(data)
                  topic == topicOf(ptr)
              IN  /\ GetTS(NewResourceChangeFromJSON(data, now).rc) = e
                  /\ MaxAge > 0 =>
                        /\ topic \in DOMAIN maxts'
                        /\ maxts'[topic] =
                              IF topic \in DOMAIN maxts /\ maxts[topic] >= e
                              THEN maxts[topic] ELSE e
                        /\ CountedOnce(TagLabel(data), "expired", topic) <=> now - e > MaxAge
      ]_vars

\* Two rooted events were handled, each on its own topic: one whose root_event
\* is newer than the event was pushed and its root timestamp recorded; one
\* whose root_event is older was dropped as expired by the root timestamp.
C25_Witness ==
    /\ MaxAge = 1
    /\ kcount = 2
    /\ purgeEvents["test", "ok", "topic1"] = 1
    /\ "topic1" \in DOMAIN maxts /\ maxts["topic1"] = 2
    /\ purgeEvents["", "expired", "-"] = 1
    /\ "-" \in DOMAIN maxts /\ maxts["-"] = 1

\* ------------------------------------------------ C26: meta.uri, unchanged

NewestWith(topic, e) ==
    IF topic \in DOMAIN maxts /\ maxts[topic] >= e THEN maxts[topic] ELSE e

\* What GetLag must return for a topic whose newest recorded timestamp is t,
\* read at time at.
LagOf(t, at) == IF t = ZeroTime THEN 0 ELSE at - t

\* C27: GetLag(topic) is zero while no timestamp has been recorded for the
\* topic or the recorded one is the zero time; otherwise it is the current time
\* minus the largest timestamp recorded for the topic: after an event's
\* timestamp is recorded it is the age of the newer of that timestamp and the
\* largest recorded before, and it grows with the clock.
C27_GetLag ==
    [][/\ \A topic \in TopicLabels :
             /\ topic \notin DOMAIN maxts' => GetLag(topic)' = 0
             /\ (topic \in DOMAIN maxts /\ maxts' = maxts) =>
                   GetLag(topic)' = LagOf(maxts[topic], now')
       /\ \A ptr \in TopicPtrs, data \in Payloads :
             (MaxAge > 0 /\ Decoded(data) /\ manageMessage(ptr, data)) =>
                 GetLag(topicOf(ptr))' =
                     LagOf(NewestWith(topicOf(ptr), ExpectedTs(data)), now)
      ]_vars

\* Both cases at once: topic1 has a newest timestamp MaxNow - 1 ticks old, the
\* unnamed topic has the zero time recorded.
C27_Witness ==
    /\ MaxAge > 0
    /\ kcount = 2
    /\ now = MaxNow
    /\ "topic1" \in DOMAIN maxts /\ maxts["topic1"] = 1 /\ GetLag("topic1") = MaxNow - 1
    /\ "-" \in DOMAIN maxts /\ maxts["-"] = ZeroTime /\ GetLag("-") = 0

\* ------------------------------------- C28: the two transports' contract

\* The complete answers of the server, and the answer a read delivers the
\* start of.
Answers == {a \in Responses : ~ReadResponse(a).err}
AnswerOf(resp) ==
    CHOOSE a \in Answers : Len(resp) <= Len(a) /\ SubSeq(a, 1, Len(resp)) = resp

\* The status code of an answer's status line, as text.
StatusText(a) == SubSeq(a, 10, 12)

\* The request reaches the server as a PURGE of uri with Host host.
PurgeOf(wire, args) ==
    wire.method = "PURGE" /\ wire.target = args.uri /\ wire.Host = args.host

\* The contract over the reads in Reads: both clients deliver the PURGE, a
\* Send that got an answer returns the answer's status code and a nil error,
\* and the status is empty exactly when the error is not nil.
SendContract(Reads) ==
    /\ writeOk => PurgeOf(tcpWire', sendArgs)
    /\ \A bytes \in Responses :
          httpDoAnswered(bytes) =>
              /\ PurgeOf(httpWire', httpArgs)
              /\ bytes \in Answers => Itoa(httpResp'.StatusCode) = StatusText(bytes)
    /\ \A resp \in Reads :
          readOk(resp) =>
              sendRet'.err.nil /\ sendRet'.status = StatusText(AnswerOf(resp))
    /\ httpCopy(TRUE) =>
          httpRet'.err = Nil /\ httpRet'.status = Itoa(httpResp.StatusCode)
    /\ sendRet'.returned => (sendRet'.status = <<>> <=> ~sendRet'.err.nil)
    /\ httpRet'.returned => (httpRet'.status = <<>> <=> httpRet'.err # Nil)

\* C28: the raw-TCP Send and the HTTP-client Send have the same contract: for
\* the same (host, request URI) and a server that answers, both deliver a
\* PURGE for that URI with that Host and return the same status string, the
\* answer's status code, with a nil error; each returns an empty status
\* exactly when it returns an error.
C28_SameContract == [][SendContract(Responses)]_vars

\* The same, for the reads that deliver at least the status line of the answer.
SendContractOnFullReads == [][SendContract(Answers)]_vars

\* Both clients returned "200" and no error for the same request, as in
\* TestSendPurge.
SendPurgeBothOk ==
    /\ sendRet.returned /\ sendRet.err.nil /\ sendRet.status = <<"2", "0", "0">>
    /\ httpRet.returned /\ httpRet.err = Nil /\ httpRet.status = sendRet.status
    /\ sendArgs = httpArgs /\ PurgeOf(tcpWire, sendArgs) /\ PurgeOf(httpWire, httpArgs)

\* ---------------------------------------- C29: HTTP Send, a single attempt

\* The call returns at this step with an empty status and the error of the
\* named call.
ReturnsError(call) ==
    /\ httpRet' = [returned |-> TRUE, status |-> <<>>, err |-> call]
    /\ httpPc' = "idle"

\* A step of HTTPPurger.Send.
HTTPSendStep ==
    \/ \E req \in HTTPSendRequests : httpSend(req)
    \/ \E bytes \in Responses : httpDoAnswered(bytes)
    \/ httpDoFailed
    \/ \E ok \in BOOLEAN : httpCopy(ok)

\* C29: HTTPPurger.Send makes one request attempt per call: p.client.Do is
\* called at most once, and a failure to build the request, to send it or to
\* read the body makes the call return at once with an empty status and that
\* error; nothing is retried and no connection is re-established by Send.
C29_HTTPSingleAttempt ==
    [][/\ httpDo' <= 1
       /\ \A req \in HTTPSendRequests :
             (httpSend(req) /\ NewRequest("PURGE", httpDestAddr, req.uri).err) =>
                 ReturnsError("NewRequest") /\ httpDo' = 0 /\ httpWire' = httpWire
       /\ httpDoFailed => ReturnsError("Do") /\ httpDo' = 1
       /\ \A bytes \in Responses :
             (httpDoAnswered(bytes) /\ ReadResponse(bytes).err) =>
                 ReturnsError("Do") /\ httpDo' = 1
       /\ httpCopy(FALSE) => ReturnsError("Copy") /\ httpDo' = 1 /\ httpWire' = httpWire
       /\ (httpRet'.returned /\ httpRet'.err = Nil) => httpDo' = 1
       /\ httpDestAddr' = httpDestAddr
       /\ HTTPSendStep => UNCHANGED <<conn, dialed, reconnects, tpc>>
      ]_vars

\* The second Send call failed reading the body after its one request, which
\* the server received.
C29_Witness ==
    /\ httpCalls = MaxSends
    /\ httpRet = [returned |-> TRUE, status |-> <<>>, err |-> "Copy"]
    /\ httpDo = 1
    /\ PurgeOf(httpWire, httpArgs)
    /\ httpPc = "idle"

\* ------------------------------------------- C30: unparsable URLs dropped

\* C30: a raw URL that url.Parse rejects is dropped by the backend worker and
\* never retried: taking it off the ingress channel starts no Send, increments
\* no counter, schedules no frontend handoff and leaves the worker receiving,
\* so that it goes on with the next URL; the URL is never put back on a
\* channel and never sent to either tier.
C30_UnparsableDropped ==
    [][/\ \A w \in BackendWorkers :
             (backendWorkerRecv(w) /\ ~Head(chBackend).raw.valid) =>
                 /\ chBackend' = Tail(chBackend)
                 /\ bpc'[w] = "recv" /\ bcur' = bcur
                 /\ purgeRequests' = purgeRequests
                 /\ timers' = timers /\ chFrontend' = chFrontend
                 /\ alive'
                 /\ hist'[Head(chBackend).id] =
                       [hist[Head(chBackend).id] EXCEPT !.taken = TRUE]
       /\ \A i \in Ids :
             (hist'[i].taken /\ ~hist'[i].raw.valid) =>
                 /\ hist'[i].beCall = 0 /\ hist'[i].sched = 0
                 /\ hist'[i].enq = 0 /\ hist'[i].feCall = 0
                 /\ \A k \in 1..Len(chBackend') : chBackend'[k].id # i
                 /\ \A k \in 1..Len(chFrontend') : chFrontend'[k].id # i
                 /\ \A k \in 1..Len(timers') : timers'[k].id # i
      ]_vars

\* The worker dropped an unparsable first URL and went on to send the second
\* one, the only purge counted.
C30_Witness ==
    /\ ~hist[1].raw.valid /\ hist[1].taken /\ hist[1].beCall = 0
    /\ hist[2].raw.valid /\ hist[2].beCall = 1 /\ hist[2].beRet = 1
    /\ SumOver([s \in Statuses |-> purgeRequests["backend", s]], Statuses) = 1
    /\ bpc[TestWorker] = "recv"

\* ------------------------------------------------ C31: the lag map's lock
\* C31: setLag's check-then-write and GetLag's read exclude each other, so a
\* sampler's GetLag never looks the map up while setLag's assignment to it is
\* in progress.
C31_NoReadDuringWrite == [][GetLagRead => setLagPc # "writing"]_vars

\* ------------------------------------- C32: events_received_total, once each
\* By how much the counters of one status grew in a step, over all tags and topics.
StatusDelta(status) ==
    SumOver([p \in Tags \X TopicLabels |->
                 purgeEvents'[p[1], status, p[2]] - purgeEvents[p[1], status, p[2]]],
            Tags \X TopicLabels)

\* The step changes no counter other than the one labelled (tag, _, topic).
OnlyLabelled(tag, topic) ==
    \A g \in Tags, s \in EventStatuses, t \in TopicLabels :
        purgeEvents'[g, s, t] # purgeEvents[g, s, t] => g = tag /\ t = topic

\* The decoded event is older than a non-zero MaxAge.
Gated(data) == Decodable(data) /\ MaxAge # 0 /\ now - EffectiveTs(data, now) > MaxAge

C33_HandshakeNeverMeetsClosed == ~(hpc = "send" /\ doneClosed)

\* ----------------------------------- C34: shutdown while the push is blocked
\* The signal handler has sent its shutdown message while the reader is inside
\* manageEvent, blocked in its push on the full ingress channel.
SignalledWhilePushing == hpc = "send" /\ kpc = "pushing" /\ Len(chBackend) = ChanCap

\* C34: a shutdown signal delivered while the reader is pushing onto a full
\* ingress channel still leads to the reader terminated (consumer closed,
\* shutdown channel closed) and to the process having exited.
C34_SignalLeadsToExit ==
    SignalledWhilePushing ~> (kpc = "terminated" /\ doneClosed /\ ~running)

\* --------------------------------------------- C35: the pipeline is live
\* C35: under fair scheduling, with every Send call returning (the process is
\* not ended inside one), a URL put on the ingress channel that parses and
\* passes the host filter is eventually sent to the backend and, after that
\* Send returned, to the frontend.
C35_PipelineLive ==
    \A i \in Ids :
        (hist[i].pushed /\ Accepted(i)) ~>
            (~alive \/ (hist[i].beCall = 1 /\ hist[i].beRet = 1 /\ hist[i].feCall = 1))

\* C35 witness: every URL the ingress can deliver was accepted and has gone
\* through both tiers, with the process alive and the pipeline at rest.
C35_Witness ==
    /\ Drained
    /\ \A i \in Ids : /\ hist[i].pushed /\ Accepted(i)
                      /\ hist[i].beRet = 1 /\ hist[i].enq = 1 /\ hist[i].feRet = 1

\* --------------------------------- C36: several workers, one receive per URL
\* Where ingress item i is at the backend stage: the entries of the ingress
\* channel that carry it, and the backend workers that hold it.
InIngress(i) == {j \in 1..Len(chBackend) : chBackend[j].id = i}
HeldBy(i) == {w \in BackendWorkers : bpc[w] = "send" /\ bcur[w].id = i}

\* C36: with several backend workers on the one ingress channel a pushed URL
\* is on the channel once until one worker receives it, is then held by at
\* most one worker, and gets one backend Send call and one scheduled handoff in
\* all when it parses and passes the filter: not one per worker, and not none.
C36_ReceivedByOneWorker ==
    \A i \in Ids :
        /\ Cardinality(InIngress(i)) + Cardinality(HeldBy(i)) <= 1
        /\ hist[i].pushed =>
              /\ ~hist[i].taken <=> Cardinality(InIngress(i)) = 1
              /\ hist[i].beCall <= 1 /\ hist[i].beRet <= hist[i].beCall
              /\ (hist[i].taken /\ Accepted(i)) => hist[i].beCall = 1
              /\ (hist[i].taken /\ ~Accepted(i)) => hist[i].beCall = 0 /\ hist[i].sched = 0
              /\ hist[i].beCall = 1 => Cardinality(HeldBy(i)) + hist[i].beRet = 1
              /\ hist[i].sched = hist[i].beRet
        /\ ~hist[i].pushed => InIngress(i) = {} /\ HeldBy(i) = {} /\ hist[i].beCall = 0

\* C36 witness: two workers are each inside the Send of a different URL, each
\* URL having been received once.
C36_Witness ==
    \E w1, w2 \in BackendWorkers :
        /\ w1 # w2 /\ bpc[w1] = "send" /\ bpc[w2] = "send"
        /\ bcur[w1].id # bcur[w2].id
        /\ hist[bcur[w1].id].beCall = 1 /\ hist[bcur[w2].id].beCall = 1
        /\ hist[bcur[w1].id].sched = 0 /\ hist[bcur[w2].id].sched = 0

\* ------------------------------------- C37: only bytes of the datagram read
\* The buffer of the last call holds, beyond the n bytes just received, bytes
\* of an earlier datagram (a fresh buffer is all zero).
HoldsEarlierBytes(c) ==
    \E k \in (c.n + 1)..Len(c.buf.bytes) : c.buf.bytes[k] # 0

\* C37: a URL extractURL returns for a received datagram lies within the n
\* bytes of that datagram, also when the reused buffer still holds bytes of an
\* earlier, longer datagram: it is the bytes of the datagram from the URL's
\* offset on, and it ends at or before offset n.
C37_URLWithinDatagram ==
    (/\ lastCall.dgram # <<>> /\ ~lastCall.res.err /\ ~lastCall.res.fault
     /\ HoldsEarlierBytes(lastCall)) =>
        LET d == lastCall.dgram
            off == 14 + 2 + MethodLenOf(d) + 2
            url == lastCall.res.url
        IN  /\ lastCall.n = Len(d)
            /\ off + Len(url) <= lastCall.n
            /\ url = SubSeq(d, off + 1, off + Len(url))

\* ------------------------------------------ C38: a Send call terminates
\* A Send call is in progress: at its write, at its read, or in the reconnect
\* routine it called.
InSend == tpc \in {"write", "read"} \/ (tpc = "dial" /\ dialFor = "send")

\* What a Send call in progress has left to do at most: attempts, then the
\* phase of the attempt (write, read, reconnect), then dials of the reconnect.
SendRank ==
    (sendAttempts - sendI) * 40
      + (CASE tpc = "write" -> 30 [] tpc = "read" -> 20 [] OTHER -> 10)
      + (9 - Len(slept))

\* C38: a raw-TCP Send call cannot loop forever.  Every step of a call in
\* progress lowers what the call has left to do, which is never negative; the
\* call makes at most 10 writes and 10 reconnects, a reconnect at most 9 dials;
\* it ends by returning or in the process exit of the reconnect routine; and it
\* returns the failure only after 10 reconnects that all succeeded.
C38_SendTerminates ==
    [][/\ InSend => /\ SendRank >= 0
                    /\ InSend' => SendRank' < SendRank
                    /\ ~InSend' => (sendRet'.returned /\ tpc' = "idle")
                                      \/ (texit' = 1 /\ tpc' = "exited")
       /\ writes' <= sendAttempts /\ reconnects' <= sendAttempts
       /\ Len(slept') <= connectionAttempts - firstDialI
       /\ (InSend /\ SendFailed') =>
             /\ dialOk
             /\ reconnects = sendAttempts /\ sendI' = sendAttempts
             /\ writes = sendAttempts /\ conn'.open
      ]_vars

\* C38 witness: a Send call whose write failed ended in the process exit of the
\* reconnect routine, after 9 failed dials.
C38_Witness ==
    /\ texit = 1 /\ tpc = "exited" /\ dialFor = "send"
    /\ Len(slept) = 9 /\ writes >= 1 /\ reconnects >= 1 /\ ~sendRet.returned

\* --------------------------------------- C39: the frontend channel when full
\* C39: the frontend channel never holds more than its capacity.  A handoff
\* whose timer is due while the channel is full cannot complete and stays
\* pending; every scheduled handoff is either still pending or has put its URL
\* on the channel, once; the channel changes only by a handoff adding its URL
\* at the tail when there is room or by a frontend worker taking the head.
C39_FullFrontendBlocks ==
    [][/\ Len(chFrontend') <= ChanCap
       /\ \A i \in 1..Len(timers) :
             (alive /\ timerDue(timers[i])) =>
                (ENABLED delayedPurge(i) <=> Len(chFrontend) < ChanCap)
       /\ \A id \in Ids : hist'[id].sched = hist'[id].enq + PendingTimers(id)'
       /\ \A id \in Ids :
             hist'[id].enq # hist[id].enq =>
                /\ hist'[id].enq = hist[id].enq + 1
                /\ Len(chFrontend) < ChanCap
                /\ chFrontend' = Append(chFrontend, [id |-> id, url |-> ParsedURL(id)])
                /\ PendingTimers(id)' = PendingTimers(id) - 1
       /\ chFrontend' # chFrontend =>
             \/ \E id \in Ids : hist'[id].enq = hist[id].enq + 1
             \/ /\ chFrontend' = Tail(chFrontend)
                /\ \E f \in FrontendWorkers : fpc[f] = "recv" /\ fcur'[f] = Head(chFrontend)
      ]_vars

\* C39 witness: the frontend channel is full of another URL, and a handoff
\* that was scheduled once has fired, has not put its URL on the channel and
\* is still pending.
C39_Witness ==
    /\ alive
    /\ \E i \in 1..Len(timers) :
          /\ BlockedHandoff(i)
          /\ hist[timers[i].id].sched = 1 /\ hist[timers[i].id].enq = 0
          /\ \A j \in 1..Len(chFrontend) : chFrontend[j].id # timers[i].id

====
